---- MODULE Spec2Model ----
\* Batch enrichment of contact records (lead_gen.py, streamlit_app.py):
\* ZoomInfoEnricher.enrich_contact_batch (authentication, payload build,
\* remote call, name/email reconciliation, merge) and the three batch loops
\* that drive it (main.process_file, LeadGenerator.process_contact_list and
\* the streamlit page).
\*
\* Text is a sequence of one-character strings, so that strip(), lower() and
\* the camelCase conversion are computed character by character.  A Python
\* dict is a function from keys (text) to values.
EXTENDS Integers, Sequences, FiniteSets, TLC

(***************************************************************************)
(* Bounds of the model                                                     *)
(***************************************************************************)
MaxContacts == 3
MaxBatchSize == 2
MaxRetries == 1
MaxResults == 3
MaxBatchLen == 2
MaxWorkers == 2
MaxFileLen == 2
MaxKeywords == 1
MaxCalls == 2

(***************************************************************************)
(* str methods                                                             *)
(***************************************************************************)
UpperChars == <<"A","B","C","D","E","F","G","H","I","J","K","L","M",
                "N","O","P","Q","R","S","T","U","V","W","X","Y","Z">>
LowerChars == <<"a","b","c","d","e","f","g","h","i","j","k","l","m",
                "n","o","p","q","r","s","t","u","v","w","x","y","z">>

isupper(c) == \E n \in 1..26 : UpperChars[n] = c

lower_char(c) ==
    IF isupper(c) THEN LowerChars[CHOOSE n \in 1..26 : UpperChars[n] = c] ELSE c

RECURSIVE lower(_)
lower(s) == IF s = <<>> THEN <<>> ELSE <<lower_char(Head(s))>> \o lower(Tail(s))

RECURSIVE lstrip(_, _)
lstrip(s, ch) ==
    IF s # <<>> /\ Head(s) = ch THEN lstrip(Tail(s), ch) ELSE s

RECURSIVE rstrip(_, _)
rstrip(s, ch) ==
    IF s # <<>> /\ s[Len(s)] = ch THEN rstrip(SubSeq(s, 1, Len(s) - 1), ch) ELSE s

strip(s) == rstrip(lstrip(s, " "), " ")

startswith(s, p) == Len(s) >= Len(p) /\ SubSeq(s, 1, Len(p)) = p

\* s.replace(p, "") for a non-empty p
RECURSIVE remove_all(_, _)
remove_all(s, p) ==
    IF s = <<>> THEN <<>>
    ELSE IF startswith(s, p) THEN remove_all(SubSeq(s, Len(p) + 1, Len(s)), p)
    ELSE <<Head(s)>> \o remove_all(Tail(s), p)

\* ''.join(['_'+c.lower() if c.isupper() else c for c in key]).lstrip('_')
RECURSIVE snake_join(_)
snake_join(key) ==
    IF key = <<>> THEN <<>>
    ELSE (IF isupper(Head(key)) THEN <<"_", lower_char(Head(key))>> ELSE <<Head(key)>>)
         \o snake_join(Tail(key))

snake_case(key) == lstrip(snake_join(key), "_")

(***************************************************************************)
(* dict methods                                                            *)
(***************************************************************************)
EmptyDict == [k \in {} |-> <<>>]

\* d.get(k, '') for text values
Get(d, k) == IF k \in DOMAIN d THEN d[k] ELSE <<>>

\* d[k] = v
Put(d, k, v) == [x \in DOMAIN d \cup {k} |-> IF x = k THEN v ELSE d[x]]

\* d without k (d.pop(k))
Pop(d, k) == [x \in DOMAIN d \ {k} |-> d[x]]

\* {**a, **b}
Merged(a, b) == [x \in DOMAIN a \cup DOMAIN b |-> IF x \in DOMAIN b THEN b[x] ELSE a[x]]

\* bool(d) of a dict
Truthy(d) == DOMAIN d # {}

(***************************************************************************)
(* Field names                                                             *)
(***************************************************************************)
k_first_name == <<"f","i","r","s","t","_","n","a","m","e">>
k_last_name == <<"l","a","s","t","_","n","a","m","e">>
k_email == <<"e","m","a","i","l">>
k_phone == <<"p","h","o","n","e">>
k_title == <<"t","i","t","l","e">>
k_company_name == <<"c","o","m","p","a","n","y","_","n","a","m","e">>
k_company_website == <<"c","o","m","p","a","n","y","_","w","e","b","s","i","t","e">>
k_zi_enriched == <<"z","i","_","e","n","r","i","c","h","e","d">>
k_company == <<"c","o","m","p","a","n","y">>
k_First_Name == <<"F","i","r","s","t"," ","N","a","m","e">>
k_Last_Name == <<"L","a","s","t"," ","N","a","m","e">>
k_Email == <<"E","m","a","i","l">>
k_DirectPhone == <<"D","i","r","e","c","t","P","h","o","n","e">>
k_Contact_Phone == <<"C","o","n","t","a","c","t"," ","P","h","o","n","e">>

k_firstName == <<"f","i","r","s","t","N","a","m","e">>
k_lastName == <<"l","a","s","t","N","a","m","e">>
k_jobTitle == <<"j","o","b","T","i","t","l","e">>
k_companyName == <<"c","o","m","p","a","n","y","N","a","m","e">>
k_companyDomain == <<"c","o","m","p","a","n","y","D","o","m","a","i","n">>
k_companyId == <<"c","o","m","p","a","n","y","I","d">>
k_industry == <<"i","n","d","u","s","t","r","y">>
k_companyRevenue == <<"c","o","m","p","a","n","y","R","e","v","e","n","u","e">>
k_companyEmployees == <<"c","o","m","p","a","n","y","E","m","p","l","o","y","e","e","s">>
k_companyLocation == <<"c","o","m","p","a","n","y","L","o","c","a","t","i","o","n">>

company_prefix == <<"c","o","m","p","a","n","y","_">>

CompanyKeys == <<k_companyName, k_companyDomain, k_companyId, k_industry,
                 k_companyRevenue, k_companyEmployees, k_companyLocation>>

(***************************************************************************)
(* ZoomInfoEnricher.enrich_contact_batch                                   *)
(***************************************************************************)
find(s, ch) ==
    IF \E n \in 1..Len(s) : s[n] = ch
    THEN CHOOSE n \in 1..Len(s) : s[n] = ch /\ \A m \in 1..(n - 1) : s[m] # ch
    ELSE 0

is_scheme_char(c) ==
    \/ isupper(c)
    \/ \E n \in 1..26 : LowerChars[n] = c
    \/ c \in {"0","1","2","3","4","5","6","7","8","9","+","-","."}

\* urlparse(url).netloc; raised stands for the ValueError of an unbalanced
\* bracket in the network location
urlparse_netloc(url) ==
    LET colon == find(url, ":")
        has_scheme == colon > 1 /\ \A n \in 1..(colon - 1) : is_scheme_char(url[n])
        rest == IF has_scheme THEN SubSeq(url, colon + 1, Len(url)) ELSE url
        after == SubSeq(rest, 3, Len(rest))
        stops == {n \in 1..Len(after) : after[n] \in {"/", "?", "#"}}
        stop == IF stops = {} THEN Len(after) + 1
                ELSE CHOOSE n \in stops : \A m \in stops : n <= m
        netloc == IF startswith(rest, <<"/","/">>) THEN SubSeq(after, 1, stop - 1) ELSE <<>>
    IN [raised |-> (find(netloc, "[") > 0) # (find(netloc, "]") > 0), netloc |-> netloc]

company_domain(website) ==
    LET parsed_url == urlparse_netloc(website)
        domain == parsed_url.netloc
    IN IF parsed_url.raised THEN website
       ELSE IF startswith(domain, <<"w","w","w",".">>) THEN SubSeq(domain, 5, Len(domain))
       ELSE domain

\* the payload of one contact (the body of the first loop)
person_payload(contact) ==
    LET p1 == IF k_first_name \in DOMAIN contact
              THEN Put(EmptyDict, k_firstName, contact[k_first_name]) ELSE EmptyDict
        p2 == IF k_last_name \in DOMAIN contact
              THEN Put(p1, k_lastName, contact[k_last_name]) ELSE p1
        p3 == IF k_email \in DOMAIN contact
              THEN Put(p2, k_email, contact[k_email]) ELSE p2
        p4 == IF k_title \in DOMAIN contact
              THEN Put(p3, k_jobTitle, contact[k_title]) ELSE p3
        p5 == IF k_company_name \in DOMAIN contact
              THEN Put(p4, k_companyName, contact[k_company_name]) ELSE p4
    IN IF k_company_website \in DOMAIN contact
       THEN Put(p5, k_companyDomain, company_domain(contact[k_company_website])) ELSE p5

RECURSIVE batch_payload(_)
batch_payload(contacts) ==
    IF contacts = <<>> THEN <<>>
    ELSE LET p == person_payload(Head(contacts))
         IN (IF Truthy(p) THEN <<p>> ELSE <<>>) \o batch_payload(Tail(contacts))

\* (x.get(first) or '').strip().lower(), (x.get(last) or '').strip().lower()
name_key_of(x, first, last) ==
    <<lower(strip(Get(x, first))), lower(strip(Get(x, last)))>>

\* mutant of email_of: the email is compared as written
email_of_raw(x) == Get(x, k_email)

email_of(x) == lower(strip(Get(x, k_email)))

\* results_by_name: name key -> positions of the entries with that key, in
\* response order
RECURSIVE build_results_by_name(_, _, _)
build_results_by_name(results, j, acc) ==
    IF j > Len(results) THEN acc
    ELSE LET key == name_key_of(results[j], k_firstName, k_lastName)
             old == IF key \in DOMAIN acc THEN acc[key] ELSE <<>>
         IN build_results_by_name(results, j + 1, Put(acc, key, Append(old, j)))

\* mutant of build_results_by_email: the first entry of an email is kept
RECURSIVE build_results_by_email_first(_, _, _)
build_results_by_email_first(results, j, acc) ==
    IF j > Len(results) THEN acc
    ELSE LET email == email_of(results[j])
         IN build_results_by_email_first(results, j + 1,
                IF email # <<>> /\ email \notin DOMAIN acc
                THEN Put(acc, email, j) ELSE acc)

\* results_by_email: email -> position of the entry
RECURSIVE build_results_by_email(_, _, _)
build_results_by_email(results, j, acc) ==
    IF j > Len(results) THEN acc
    ELSE LET email == email_of(results[j])
         IN build_results_by_email(results, j + 1,
                IF email # <<>> THEN Put(acc, email, j) ELSE acc)

\* mutant of first_with_email: the first entry of the name is taken
first_of_group(group, results, email) ==
    IF group = <<>> THEN 0 ELSE Head(group)

\* the loop over results_by_name[name_key] with its break
RECURSIVE first_with_email(_, _, _)
first_with_email(group, results, email) ==
    IF group = <<>> THEN 0
    ELSE IF email_of(results[Head(group)]) = email THEN Head(group)
    ELSE first_with_email(Tail(group), results, email)

\* mutant of match_index: a contact without a match takes the first entry
match_index_or_first(contact, results, results_by_name, results_by_email) ==
    LET name_key == name_key_of(contact, k_first_name, k_last_name)
        email == email_of(contact)
        group == IF name_key \in DOMAIN results_by_name
                 THEN results_by_name[name_key] ELSE <<>>
        by_name == IF Len(group) = 1 THEN group[1]
                   ELSE IF Len(group) > 1 /\ email # <<>>
                        THEN first_with_email(group, results, email)
                        ELSE 0
        not_enriched == by_name = 0 \/ ~Truthy(results[by_name])
    IN IF not_enriched /\ email # <<>> /\ email \in DOMAIN results_by_email
       THEN results_by_email[email]
       ELSE IF by_name = 0 /\ results # <<>> THEN 1
       ELSE by_name

\* the entry chosen for one contact: its position in results, 0 for None
match_index(contact, results, results_by_name, results_by_email) ==
    LET name_key == name_key_of(contact, k_first_name, k_last_name)
        email == email_of(contact)
        group == IF name_key \in DOMAIN results_by_name
                 THEN results_by_name[name_key] ELSE <<>>
        by_name == IF Len(group) = 1 THEN group[1]
                   ELSE IF Len(group) > 1 /\ email # <<>>
                        THEN first_with_email(group, results, email)
                        ELSE 0
        not_enriched == by_name = 0 \/ ~Truthy(results[by_name])
    IN IF not_enriched /\ email # <<>> /\ email \in DOMAIN results_by_email
       THEN results_by_email[email]
       ELSE by_name

\* mutant of hoist_company: the entry keeps the key it gives to the company
\* mapping
RECURSIVE hoist_company_keeps(_, _, _)
hoist_company_keeps(keys, enriched, company_info) ==
    IF keys = <<>> THEN [enriched |-> enriched, company_info |-> company_info]
    ELSE LET key == Head(keys)
         IN IF key \in DOMAIN enriched
            THEN hoist_company_keeps(Tail(keys), enriched,
                     Put(company_info,
                         remove_all(snake_case(key), company_prefix), enriched[key]))
            ELSE hoist_company_keeps(Tail(keys), enriched, company_info)

\* the hoisting loop over the company keys: the entry loses the key, the
\* company mapping gains it under its short name
RECURSIVE hoist_company(_, _, _)
hoist_company(keys, enriched, company_info) ==
    IF keys = <<>> THEN [enriched |-> enriched, company_info |-> company_info]
    ELSE LET key == Head(keys)
         IN IF key \in DOMAIN enriched
            THEN hoist_company(Tail(keys), Pop(enriched, key),
                     Put(company_info,
                         remove_all(snake_case(key), company_prefix), enriched[key]))
            ELSE hoist_company(Tail(keys), enriched, company_info)

\* mutant of hoisted: an entry that has no company key left loses the
\* company mapping an earlier pass gave it
hoisted_again_drops(enriched) ==
    LET h == hoist_company(CompanyKeys, enriched, EmptyDict)
    IN IF Truthy(h.company_info) THEN Put(h.enriched, k_company, h.company_info)
       ELSE Pop(h.enriched, k_company)

\* the entry after hoisting (it is changed in place)
hoisted(enriched) ==
    LET h == hoist_company(CompanyKeys, enriched, EmptyDict)
    IN IF Truthy(h.company_info) THEN Put(h.enriched, k_company, h.company_info)
       ELSE h.enriched

\* the entry's fields under their local names (two keys of an entry that
\* convert to one local key are outside the modelled inputs)
standardize(enriched) ==
    LET local(key) == IF key = k_company THEN key ELSE snake_case(key)
        names == {local(key) : key \in DOMAIN enriched}
    IN [n \in names |-> enriched[CHOOSE key \in DOMAIN enriched : local(key) = n]]

\* mutant of merge: an empty value of the entry does not replace the
\* contact's
merge_nonempty(contact, enriched) ==
    LET standardized == standardize(enriched)
        kept == [k \in {x \in DOMAIN standardized :
                            x \notin DOMAIN contact \/ standardized[x] # <<>>}
                    |-> standardized[k]]
    IN Put(Merged(contact, kept), k_zi_enriched, TRUE)

merge(contact, enriched) ==
    Put(Merged(contact, standardize(enriched)), k_zi_enriched, TRUE)

\* mutant of flag_all: a contact without an email is left out of the list
RECURSIVE flag_all_skips(_)
flag_all_skips(contacts) ==
    IF contacts = <<>> THEN <<>>
    ELSE (IF k_email \in DOMAIN Head(contacts)
          THEN <<Put(Head(contacts), k_zi_enriched, FALSE)>> ELSE <<>>)
         \o flag_all_skips(Tail(contacts))

\* contact["zi_enriched"] = False for every contact
RECURSIVE flag_all(_)
flag_all(contacts) ==
    IF contacts = <<>> THEN <<>>
    ELSE <<Put(Head(contacts), k_zi_enriched, FALSE)>> \o flag_all(Tail(contacts))

\* mutant of reconcile_loop: an unmatched contact is flagged but not added
\* to the list returned
RECURSIVE reconcile_loop_drops(_, _, _, _)
reconcile_loop_drops(n, results_by_name, results_by_email, acc) ==
    IF n > Len(acc.contacts) THEN acc
    ELSE LET contact == acc.contacts[n]
             j == match_index(contact, acc.results, results_by_name, results_by_email)
         IN IF j # 0 /\ Truthy(acc.results[j])
            THEN LET enriched == hoisted(acc.results[j])
                 IN reconcile_loop_drops(n + 1, results_by_name, results_by_email,
                        [acc EXCEPT !.enriched_contacts = Append(@, merge(contact, enriched)),
                                    !.results[j] = enriched,
                                    !.matches = Append(@, j)])
            ELSE reconcile_loop_drops(n + 1, results_by_name, results_by_email,
                        [acc EXCEPT !.contacts[n] = Put(contact, k_zi_enriched, FALSE),
                                    !.matches = Append(@, 0)])

\* the loop over the contacts of a successful response, from contact n on.
\* acc.enriched_contacts is the list built so far, acc.contacts the input
\* records (an unmatched one is flagged in place), acc.results the response
\* entries (a matched one is changed in place by the hoisting), acc.matches
\* the entry chosen for each contact
RECURSIVE reconcile_loop(_, _, _, _)
reconcile_loop(n, results_by_name, results_by_email, acc) ==
    IF n > Len(acc.contacts) THEN acc
    ELSE LET contact == acc.contacts[n]
             j == match_index(contact, acc.results, results_by_name, results_by_email)
         IN IF j # 0 /\ Truthy(acc.results[j])
            THEN LET enriched == hoisted(acc.results[j])
                 IN reconcile_loop(n + 1, results_by_name, results_by_email,
                        [acc EXCEPT !.enriched_contacts = Append(@, merge(contact, enriched)),
                                    !.results[j] = enriched,
                                    !.matches = Append(@, j)])
            ELSE LET flagged == Put(contact, k_zi_enriched, FALSE)
                 IN reconcile_loop(n + 1, results_by_name, results_by_email,
                        [acc EXCEPT !.enriched_contacts = Append(@, flagged),
                                    !.contacts[n] = flagged,
                                    !.matches = Append(@, 0)])

reconcile(contacts, results) ==
    reconcile_loop(1, build_results_by_name(results, 1, EmptyDict),
                   build_results_by_email(results, 1, EmptyDict),
                   [enriched_contacts |-> <<>>, contacts |-> contacts,
                    results |-> results, matches |-> <<>>])

\* What the remote service answers to one request
StatusOk == "200"
StatusError == "status_error"
TransportError == "exception"
\* a 200 answer with a body the code cannot read: response.json() raises,
\* or an entry of results is no mapping and r.get raises in the index loop
MalformedBody == "malformed_body"

\* enrich_contact_batch(contacts) when _authenticate() returned authenticated
\* and the service answers response = [kind, results].  ret is the list
\* returned, contacts the input records after the call, requested whether
\* requests.post was called.
enrich_contact_batch(contacts, authenticated, response) ==
    LET unsent == [ret |-> contacts, contacts |-> contacts, requested |-> FALSE,
                   matches |-> <<>>, results |-> <<>>]
    IN IF ~authenticated THEN unsent
       ELSE IF batch_payload(contacts) = <<>> THEN unsent
       ELSE IF response.kind = StatusOk
            THEN LET r == reconcile(contacts, response.results)
                 IN [ret |-> r.enriched_contacts, contacts |-> r.contacts,
                     requested |-> TRUE, matches |-> r.matches, results |-> r.results]
            ELSE [ret |-> flag_all(contacts), contacts |-> flag_all(contacts),
                  requested |-> TRUE, matches |-> <<>>, results |-> <<>>]

(***************************************************************************)
(* ZoomInfoEnricher._authenticate                                          *)
(***************************************************************************)
\* enricher = [api_key, auth_token]: whether an API key is configured, and
\* whether a token was obtained.  still_valid: datetime.now() < token_expiry.
\* auth_status: the answer of the /auth endpoint (or a transport error).
authenticate(enricher, still_valid, auth_status) ==
    IF enricher.auth_token /\ still_valid THEN [ok |-> TRUE, enricher |-> enricher]
    ELSE IF enricher.api_key THEN [ok |-> TRUE, enricher |-> enricher]
    ELSE IF auth_status = StatusOk
         THEN [ok |-> TRUE, enricher |-> [enricher EXCEPT !.auth_token = TRUE]]
         ELSE [ok |-> FALSE, enricher |-> enricher]

(***************************************************************************)
(* Extraction of the output row of one enriched record                     *)
(***************************************************************************)
or_else(a, b) == IF a # <<>> THEN a ELSE b

NoFieldsError == "No name, email, or phone found after enrichment."
BatchErrorPrefix == "Batch enrichment error: "

output_row(enriched) ==
    LET first == or_else(Get(enriched, k_first_name), Get(enriched, k_First_Name))
        last == or_else(Get(enriched, k_last_name), Get(enriched, k_Last_Name))
        name == strip(first \o <<" ">> \o last)
        email == or_else(Get(enriched, k_email), Get(enriched, k_Email))
        phone == or_else(or_else(Get(enriched, k_phone), Get(enriched, k_DirectPhone)),
                         Get(enriched, k_Contact_Phone))
    IN [raised |-> name = <<>> /\ email = <<>> /\ phone = <<>>,
        row |-> [Name |-> name, Email |-> email, Contact_Phone |-> phone]]

Min(a, b) == IF a <= b THEN a ELSE b

\* mutant of batch_of: the slice takes one record of the next batch
batch_of_overlapping(list, start, size) ==
    SubSeq(list, start + 1, IF start + size + 1 <= Len(list)
                            THEN start + size + 1 ELSE Len(list))

\* contact_list[i:i + batch_size], i counted from 0
batch_of(contact_list, i, size) ==
    SubSeq(contact_list, i + 1, Min(i + size, Len(contact_list)))

\* for orig, enriched in zip(batch, enriched_batch) of process_file and of the
\* streamlit page: rows are appended until one record raises.  rows carries,
\* next to each row, the position in contact_list of the record it came from.
RECURSIVE extract_rows(_, _, _, _)
extract_rows(n, i, enriched_batch, acc) ==
    IF n > Len(enriched_batch) THEN acc
    ELSE LET out == output_row(enriched_batch[n])
         IN IF out.raised THEN [acc EXCEPT !.raised = TRUE]
            ELSE extract_rows(n + 1, i, enriched_batch,
                     [acc EXCEPT !.rows = Append(@, [row |-> out.row, orig |-> i + n])])

\* for contact in batch: errors.append({'contact': contact, 'error': ...})
RECURSIVE batch_errors(_, _, _, _)
batch_errors(n, i, batch, message) ==
    IF n > Len(batch) THEN <<>>
    ELSE <<[contact |-> batch[n], error |-> message, orig |-> i + n]>>
         \o batch_errors(n + 1, i, batch, message)

\* the same loop in process_contact_list: a record that raises becomes an
\* error record and the loop goes on
RECURSIVE extract_each(_, _, _, _, _)
extract_each(n, i, batch, enriched_batch, acc) ==
    IF n > Min(Len(batch), Len(enriched_batch)) THEN acc
    ELSE LET out == output_row(enriched_batch[n])
         IN IF out.raised
            THEN extract_each(n + 1, i, batch, enriched_batch,
                     [acc EXCEPT !.errors = Append(@,
                         [contact |-> batch[n], error |-> <<NoFieldsError>>, orig |-> i + n])])
            ELSE extract_each(n + 1, i, batch, enriched_batch,
                     [acc EXCEPT !.rows = Append(@, [row |-> out.row, orig |-> i + n])])

\* contact_list with the records of the batch at i replaced
with_batch(contact_list, i, batch) ==
    [n \in 1..Len(contact_list) |->
        IF n > i /\ n <= i + Len(batch) THEN batch[n - i] ELSE contact_list[n]]

(***************************************************************************)
(* Inputs of the batch loops                                               *)
(***************************************************************************)
t_Jane == <<"J","a","n","e">>
t_JANE_sp == <<"J","A","N","E"," ">>
t_Doe == <<"D","o","e">>
t_sp_doe == <<" ","d","o","e">>
t_jx == <<"j","@","x">>
t_JX_sp == <<"J","@","X"," ">>
t_dy == <<"d","@","y">>
t_CTO == <<"C","T","O">>
t_VP == <<"V","P">>
t_555 == <<"5","5","5">>
t_Acme == <<"A","c","m","e">>

\* a contact with name and email, one with a title only (no name, email or
\* phone), one with a phone only (no field the request carries)
c_jane == (k_first_name :> t_Jane) @@ (k_last_name :> t_Doe) @@ (k_email :> t_jx)
c_titled == (k_title :> t_CTO)
c_phone == (k_phone :> t_555)

OrchContacts == {c_jane, c_titled}

e_jane == (k_firstName :> t_JANE_sp) @@ (k_lastName :> t_sp_doe) @@ (k_email :> t_JX_sp)
          @@ (k_jobTitle :> t_CTO) @@ (k_phone :> t_555) @@ (k_companyName :> t_Acme)

OrchResponses ==
    { [kind |-> StatusOk, results |-> <<>>],
      [kind |-> StatusOk, results |-> <<e_jane>>],
      [kind |-> StatusError, results |-> <<>>],
      [kind |-> TransportError, results |-> <<>>] }

SeqsUpTo(S, n) == UNION {[1..m -> S] : m \in 0..n}

NoCall == [made |-> FALSE]

NoPool == [started |-> FALSE]

(***************************************************************************)
(* State                                                                   *)
(***************************************************************************)
VARIABLES
    orch,               \* the batch loop that runs
    contacts_df,        \* the records read from the input
    batch_size,
    retries,
    enricher,           \* [present, api_key, auth_token]
    pc,
    attempt,            \* process_file: for attempt in range(retries + 1)
    contact_list,
    i,                  \* start of the current batch, from 0
    batch_attempt,
    processed_contacts, \* rows, each with the position of its source record
    errors,
    num_success,
    num_errors,
    batch_log,          \* history: the calls of enrich_contact_batch for the batch at i
    call,               \* the call of enrich_contact_batch under test
    pool,               \* main: the file workers of the thread pool
    qualify,            \* the call of qualify_contact under test
    slept,              \* history: the starts of the batches followed by the pacing delay
    calls               \* process_contact_list: calls finished on the LeadGenerator

vars == <<orch, contacts_df, batch_size, retries, enricher, pc, attempt,
          contact_list, i, batch_attempt, processed_contacts, errors,
          num_success, num_errors, batch_log, call,
                   pool, qualify, slept, calls>>

config_vars == <<orch, contacts_df, batch_size, retries>>

total_contacts == Len(contacts_df)

Init ==
    /\ orch \in {"process_file", "streamlit", "process_contact_list"}
    /\ contacts_df \in SeqsUpTo(OrchContacts, MaxContacts)
    /\ batch_size \in 1..MaxBatchSize
    /\ retries \in (IF orch = "process_contact_list" THEN {0} ELSE 0..MaxRetries)
    /\ enricher \in [present : (IF orch = "process_contact_list" THEN BOOLEAN ELSE {TRUE}),
                     api_key : BOOLEAN, auth_token : {FALSE}]
    /\ pc = (IF orch = "process_file" THEN "pf_attempt"
             ELSE IF orch = "streamlit" THEN "st_batch" ELSE "pcl_batch")
    /\ attempt = 0
    /\ contact_list = contacts_df
    /\ i = 0
    /\ batch_attempt = 0
    /\ processed_contacts = <<>>
    /\ errors = <<>>
    /\ num_success = 0
    /\ num_errors = 0
    /\ batch_log = <<>>
    /\ call = NoCall
    /\ pool = NoPool
    /\ qualify = NoCall
    /\ slept = <<>>
    /\ calls = 0

\* what a call did, for the history: authentication failed, nothing to send,
\* or the kind of answer of the service
call_kind(authenticated, requested, response) ==
    IF ~authenticated THEN "auth_failed"
    ELSE IF ~requested THEN "unsent"
    ELSE response.kind

\* the inputs _authenticate reads: datetime.now() < token_expiry, and the
\* answer of the /auth endpoint (read only without an API key)
AuthInputs ==
    IF enricher.api_key THEN {<<TRUE, StatusOk>>}
    ELSE IF enricher.auth_token THEN {<<TRUE, StatusOk>>, <<FALSE, StatusOk>>, <<FALSE, StatusError>>}
    ELSE {<<FALSE, StatusOk>>, <<FALSE, StatusError>>}

\* one iteration of the attempt loop of a batch, for batch_attempt in
\* range(retries + 1): the call of lead_gen.enricher.enrich_contact_batch(batch)
\* on the batch at i, the row loop, and what follows the loop when it ends
BatchAttempt(next_pc) ==
    \E auth_in \in AuthInputs, response \in OrchResponses :
    \E auth \in {authenticate(enricher, auth_in[1], auth_in[2])} :
    \E res \in {enrich_contact_batch(batch_of(contact_list, i, batch_size),
                                     auth.ok, response)} :
    \E ext \in {extract_rows(1, i, res.ret, [rows |-> <<>>, raised |-> FALSE])} :
           /\ enricher' = auth.enricher
           /\ contact_list' = with_batch(contact_list, i, res.contacts)
           /\ processed_contacts' = processed_contacts \o ext.rows
           /\ batch_log' = Append(batch_log,
                  [kind |-> call_kind(auth.ok, res.requested, response),
                   raised |-> ext.raised])
           /\ IF ~ext.raised
              THEN /\ errors' = errors
                   /\ i' = i + batch_size
                   /\ batch_attempt' = batch_attempt
                   /\ pc' = next_pc
              ELSE IF batch_attempt < retries
              THEN /\ errors' = errors
                   /\ i' = i
                   /\ batch_attempt' = batch_attempt + 1
                   /\ pc' = pc
              ELSE /\ errors' = errors \o batch_errors(1, i, res.contacts,
                                             <<BatchErrorPrefix, NoFieldsError>>)
                   /\ i' = i + batch_size
                   /\ batch_attempt' = batch_attempt
                   /\ pc' = next_pc

(***************************************************************************)
(* main.process_file                                                       *)
(***************************************************************************)
PF_StartAttempt ==
    /\ orch = "process_file" /\ pc = "pf_attempt"
    /\ processed_contacts' = <<>>
    /\ errors' = <<>>
    /\ contact_list' = contacts_df
    /\ i' = 0
    /\ pc' = "pf_batch"
    /\ slept' = <<>>
    /\ UNCHANGED <<config_vars, enricher, attempt, batch_attempt, num_success,
                   num_errors, batch_log, call,
                   pool, qualify, calls>>

\* mutant of PF_NextBatch: the loop ends after the first batch
PF_NextBatch_stops ==
    /\ orch = "process_file" /\ pc = "pf_batch"
    /\ IF i < total_contacts /\ i = 0
       THEN batch_attempt' = 0 /\ batch_log' = <<>> /\ pc' = "pf_try"
       ELSE batch_attempt' = batch_attempt /\ batch_log' = batch_log /\ pc' = "pf_save"
    /\ UNCHANGED <<config_vars, enricher, attempt, contact_list, i,
                   processed_contacts, errors, num_success, num_errors, call,
                   pool, qualify, slept, calls>>

PF_NextBatch ==
    /\ orch = "process_file" /\ pc = "pf_batch"
    /\ IF i < total_contacts
       THEN batch_attempt' = 0 /\ batch_log' = <<>> /\ pc' = "pf_try"
       ELSE batch_attempt' = batch_attempt /\ batch_log' = batch_log /\ pc' = "pf_save"
    /\ UNCHANGED <<config_vars, enricher, attempt, contact_list, i,
                   processed_contacts, errors, num_success, num_errors, call,
                   pool, qualify, slept, calls>>

PF_Try ==
    /\ orch = "process_file" /\ pc = "pf_try"
    /\ BatchAttempt("pf_batch")
    /\ slept' = (IF i' # i THEN Append(slept, i) ELSE slept)
    /\ UNCHANGED <<config_vars, attempt, num_success, num_errors, call,
                   pool, qualify, calls>>

\* the frames are built and the error file is written
PF_Save ==
    /\ orch = "process_file" /\ pc = "pf_save"
    /\ num_success' = Len(processed_contacts)
    /\ num_errors' = (IF errors # <<>> THEN Len(errors) ELSE num_errors)
    /\ pc' = "done"
    /\ UNCHANGED <<config_vars, enricher, attempt, contact_list, i, batch_attempt,
                   processed_contacts, errors, batch_log, call,
                   pool, qualify, slept, calls>>

\* writing the error file raises: the outer except branch
PF_SaveFailed ==
    /\ orch = "process_file" /\ pc = "pf_save"
    /\ errors # <<>>
    /\ IF attempt < retries
       THEN /\ attempt' = attempt + 1
            /\ num_success' = Len(processed_contacts)
            /\ num_errors' = num_errors
            /\ pc' = "pf_attempt"
       ELSE /\ attempt' = attempt
            /\ num_success' = 0
            /\ num_errors' = total_contacts
            /\ pc' = "done"
    /\ UNCHANGED <<config_vars, enricher, contact_list, i, batch_attempt,
                   processed_contacts, errors, batch_log, call,
                   pool, qualify, slept, calls>>

(***************************************************************************)
(* streamlit page                                                          *)
(***************************************************************************)
ST_NextBatch ==
    /\ orch = "streamlit" /\ pc = "st_batch"
    /\ IF i < total_contacts
       THEN batch_attempt' = 0 /\ batch_log' = <<>> /\ pc' = "st_try"
       ELSE batch_attempt' = batch_attempt /\ batch_log' = batch_log /\ pc' = "st_save"
    /\ UNCHANGED <<config_vars, enricher, attempt, contact_list, i,
                   processed_contacts, errors, num_success, num_errors, call,
                   pool, qualify, slept, calls>>

ST_Try ==
    /\ orch = "streamlit" /\ pc = "st_try"
    /\ BatchAttempt("st_batch")
    /\ UNCHANGED <<config_vars, attempt, num_success, num_errors, call,
                   pool, qualify, slept, calls>>

ST_Save ==
    /\ orch = "streamlit" /\ pc = "st_save"
    /\ num_success' = Len(processed_contacts)
    /\ num_errors' = Len(errors)
    /\ pc' = "done"
    /\ UNCHANGED <<config_vars, enricher, attempt, contact_list, i, batch_attempt,
                   processed_contacts, errors, batch_log, call,
                   pool, qualify, slept, calls>>

(***************************************************************************)
(* LeadGenerator.process_contact_list                                      *)
(***************************************************************************)
\* one iteration of for i in range(0, total_contacts, batch_size)
PCL_Batch ==
    /\ orch = "process_contact_list" /\ pc = "pcl_batch"
    /\ i < total_contacts
    /\ \E auth_in \in AuthInputs, response \in OrchResponses :
       \E auth \in {authenticate(enricher, auth_in[1], auth_in[2])} :
       \E batch \in {batch_of(contact_list, i, batch_size)} :
       \E res \in {IF enricher.present
                   THEN enrich_contact_batch(batch, auth.ok, response)
                   ELSE [ret |-> batch, contacts |-> batch, requested |-> FALSE]} :
       \E ext \in {extract_each(1, i, res.contacts, res.ret,
                                [rows |-> <<>>, errors |-> <<>>])} :
           /\ enricher' = (IF enricher.present THEN auth.enricher ELSE enricher)
           /\ contact_list' = with_batch(contact_list, i, res.contacts)
           /\ processed_contacts' = processed_contacts \o ext.rows
           /\ errors' = errors \o ext.errors
           /\ batch_log' = (IF enricher.present
                            THEN <<[kind |-> call_kind(auth.ok, res.requested, response),
                                    raised |-> FALSE]>>
                            ELSE <<>>)
    /\ i' = i + batch_size
    /\ slept' = (IF i + batch_size < total_contacts THEN Append(slept, i) ELSE slept)
    /\ UNCHANGED <<config_vars, pc, attempt, batch_attempt, num_success, num_errors, call,
                   pool, qualify, calls>>

\* after the loop: the frames are built and written
PCL_Finish ==
    /\ orch = "process_contact_list" /\ pc = "pcl_batch"
    /\ i >= total_contacts
    /\ num_success' = Len(processed_contacts)
    /\ num_errors' = Len(errors)
    /\ pc' = "done"
    /\ calls' = calls + 1
    /\ UNCHANGED <<config_vars, enricher, attempt, contact_list, i, batch_attempt,
                   processed_contacts, errors, batch_log, call,
                   pool, qualify, slept>>

\* the same LeadGenerator is given another list: processed_contacts and
\* total_contacts are locals of the call, self.errors and self.enricher are
\* the object's and stay as the call before left them
PCL_Again ==
    /\ orch = "process_contact_list" /\ pc = "done"
    /\ calls < MaxCalls
    /\ contacts_df' \in SeqsUpTo(OrchContacts, MaxContacts)
    /\ batch_size' \in 1..MaxBatchSize
    /\ contact_list' = contacts_df'
    /\ i' = 0
    /\ processed_contacts' = <<>>
    /\ batch_log' = <<>>
    /\ slept' = <<>>
    /\ pc' = "pcl_batch"
    /\ UNCHANGED <<orch, retries, enricher, attempt, batch_attempt, errors,
                   num_success, num_errors, call, pool, qualify, calls>>

Next ==
    \/ PF_StartAttempt
    \/ PF_NextBatch
    \/ PF_Try
    \/ PF_Save
    \/ PF_SaveFailed
    \/ ST_NextBatch
    \/ ST_Try
    \/ ST_Save
    \/ PCL_Batch
    \/ PCL_Finish

Spec == Init /\ [][Next]_vars

(***************************************************************************)
(* Batch loops: accounting of the input records                            *)
(***************************************************************************)
Count(seq, x) == Cardinality({n \in DOMAIN seq : seq[n] = x})

SuccessOrigs == [n \in DOMAIN processed_contacts |-> processed_contacts[n].orig]
ErrorOrigs == [n \in DOMAIN errors |-> errors[n].orig]

RetryLoops == {"process_file", "streamlit"}

\* the batch loop has run to its end
LoopFinished ==
    \/ pc \in {"pf_save", "st_save", "done"}
    \/ orch = "process_contact_list" /\ pc = "pcl_batch" /\ i >= total_contacts

\* the records of the last batch of the list, whose calls batch_log holds
\* once the loop has finished
LastBatch ==
    LET start == ((total_contacts - 1) \div batch_size) * batch_size
    IN (start + 1)..total_contacts

RequestFailed(entry) == entry.kind \in {StatusError, TransportError}

IsBlank(contact) == output_row(contact).raised

StrictlyIncreasing(seq) == \A m, n \in DOMAIN seq : m < n => seq[m] < seq[n]

\* C1: when the batch loop finishes every input contact is exactly once in
\* the success sequence or the error sequence, and the successes are in input
\* order.
C1_EveryContactExactlyOnce ==
    (orch \in {"process_file", "process_contact_list"} /\ LoopFinished) =>
        /\ \A k \in 1..total_contacts :
               Count(SuccessOrigs, k) + Count(ErrorOrigs, k) = 1
        /\ Len(processed_contacts) + Len(errors) = total_contacts
        /\ StrictlyIncreasing(SuccessOrigs)

\* C2: a batch whose request failed on all retry_limit+1 attempts has every
\* contact in the error sequence and none in the success sequence.
C2_FailedBatchAllErrors ==
    (/\ orch = "process_file" /\ LoopFinished /\ total_contacts > 0
     /\ Len(batch_log) = retries + 1
     /\ \A n \in DOMAIN batch_log : RequestFailed(batch_log[n]))
    => \A k \in LastBatch :
           /\ Count(ErrorOrigs, k) = 1
           /\ Count(SuccessOrigs, k) = 0
           /\ \A n \in DOMAIN errors :
                  errors[n].orig = k => errors[n].error[1] = BatchErrorPrefix

\* C3: a batch is requested at most retry_limit+1 times, never again after a
\* request that succeeded, and again after every failed request while
\* attempts remain.
C3_RetryUntilSuccess ==
    (orch \in RetryLoops /\ LoopFinished /\ total_contacts > 0)
    => /\ Len(batch_log) <= retries + 1
       /\ \A n \in 1..(Len(batch_log) - 1) : batch_log[n].kind # StatusOk
       /\ (batch_log # <<>> /\ RequestFailed(batch_log[Len(batch_log)]))
              => Len(batch_log) = retries + 1

\* the last call of the enricher could not authenticate
AuthFailedNow ==
    batch_log # <<>> /\ batch_log[Len(batch_log)].kind = "auth_failed"

\* C5: after a failed authentication no contact of that batch or of a later
\* one is a success record, the batch is not retried and no later batch is
\* attempted.
C5_AuthFailureAbortsRun ==
    (orch = "process_file" /\ AuthFailedNow) =>
        /\ pc # "pf_try"
        /\ ~(pc = "pf_batch" /\ i < total_contacts)
        /\ \A n \in DOMAIN processed_contacts :
               processed_contacts[n].orig <= i - batch_size

\* C6: when the request of a batch succeeds and a returned record has no
\* name, email or phone, that record alone is an error record, the others
\* are successes once each and the batch is requested once.
C6_BlankRecordAloneDemoted ==
    (/\ orch \in {"process_file", "process_contact_list"}
     /\ LoopFinished /\ total_contacts > 0
     /\ batch_log # <<>> /\ batch_log[1].kind = StatusOk
     /\ \E k \in LastBatch : IsBlank(contact_list[k]))
    => /\ Len(batch_log) = 1
       /\ \A k \in LastBatch :
              IF IsBlank(contact_list[k])
              THEN Count(ErrorOrigs, k) = 1 /\ Count(SuccessOrigs, k) = 0
              ELSE Count(ErrorOrigs, k) = 0 /\ Count(SuccessOrigs, k) = 1

(***************************************************************************)
(* One call of enrich_contact_batch on a batch and a response drawn from   *)
(* bounded sets                                                            *)
(***************************************************************************)
t_Bob == <<"B","o","b">>
t_sp_jane == <<" ","j","a","n","e">>
t_DOE == <<"D","O","E">>
t_DY == <<"D","@","Y">>
t_ax == <<"a",".","x">>
t_7 == <<"7">>
t_IT == <<"I","T">>
t_1M == <<"1","M">>
t_50 == <<"5","0">>
t_NY == <<"N","Y">>

\* contacts: name and email; the same name in another spelling with another
\* email and a title; email only; phone only (no field the request carries)
c_jane2 == (k_first_name :> t_sp_jane) @@ (k_last_name :> t_DOE) @@ (k_email :> t_DY)
           @@ (k_title :> t_VP)
c_email_only == (k_email :> t_JX_sp)

EnrichContacts == {c_jane, c_jane2, c_email_only, c_phone}

\* response entries: Jane Doe j@x with every company field; Jane Doe d@y; Bob with Jane's email and an
\* empty last name; an entry without any field
r_jane_x == (k_firstName :> t_Jane) @@ (k_lastName :> t_Doe) @@ (k_email :> t_jx)
            @@ (k_jobTitle :> t_CTO) @@ (k_companyName :> t_Acme)
            @@ (k_companyDomain :> t_ax) @@ (k_companyId :> t_7) @@ (k_industry :> t_IT)
            @@ (k_companyRevenue :> t_1M) @@ (k_companyEmployees :> t_50)
            @@ (k_companyLocation :> t_NY)
r_jane_y == (k_firstName :> t_JANE_sp) @@ (k_lastName :> t_sp_doe) @@ (k_email :> t_dy)
            @@ (k_jobTitle :> t_VP)
r_bob_x == (k_firstName :> t_Bob) @@ (k_lastName :> <<>>) @@ (k_email :> t_JX_sp)
           @@ (k_phone :> t_555)

EnrichResults == {r_jane_x, r_jane_y, r_bob_x, EmptyDict}

EnrichResponses ==
    {[kind |-> StatusOk, results |-> r] : r \in SeqsUpTo(EnrichResults, MaxResults)}
    \cup {[kind |-> StatusError, results |-> <<>>],
          [kind |-> TransportError, results |-> <<>>],
          [kind |-> MalformedBody, results |-> <<>>]}

InitEnrich ==
    /\ orch = "enrich_contact_batch"
    /\ contacts_df = <<>>
    /\ batch_size = 1
    /\ retries = 0
    /\ enricher = [present |-> TRUE, api_key |-> TRUE, auth_token |-> FALSE]
    /\ pc = "call"
    /\ attempt = 0
    /\ contact_list = <<>>
    /\ i = 0
    /\ batch_attempt = 0
    /\ processed_contacts = <<>>
    /\ errors = <<>>
    /\ num_success = 0
    /\ num_errors = 0
    /\ batch_log = <<>>
    /\ pool = NoPool
    /\ qualify = NoCall
    /\ slept = <<>>
    /\ calls = 0
    /\ \E contacts \in SeqsUpTo(EnrichContacts, MaxBatchLen),
          authenticated \in BOOLEAN, response \in EnrichResponses :
        /\ ~authenticated => response.kind = TransportError
        /\ call = [made |-> FALSE, contacts |-> contacts,
                   authenticated |-> authenticated, response |-> response]

\* the call returns: call.result holds the returned list, the input records
\* and the response entries after the call, and the entry chosen per contact
Enrich ==
    /\ orch = "enrich_contact_batch" /\ pc = "call"
    /\ \E result \in {enrich_contact_batch(call.contacts, call.authenticated,
                                           call.response)} :
           call' = [made |-> TRUE, contacts |-> call.contacts,
                    authenticated |-> call.authenticated, response |-> call.response,
                    result |-> result]
    /\ pc' = "returned"
    /\ UNCHANGED <<config_vars, enricher, attempt, contact_list, i, batch_attempt,
                   processed_contacts, errors, num_success, num_errors, batch_log,
                   pool, qualify, slept, calls>>

NextEnrich == Enrich

SpecEnrich == InitEnrich /\ [][NextEnrich]_vars

\* the calls that come to reconcile a response: the authentication
\* succeeded and the service answered 200
InitReconcile == InitEnrich /\ call.authenticated /\ call.response.kind = StatusOk

SpecReconcile == InitReconcile /\ [][NextEnrich]_vars

\* the call went through the reconciliation of a 200 response
Reconciled ==
    call.made /\ call.result.requested /\ call.response.kind = StatusOk

\* C4: a failed request hands the caller something different from what a
\* successful request with no matching entry hands it.
C4_FailureDistinguishable ==
    (call.made /\ call.result.requested /\ call.response.kind # StatusOk)
    => call.result.ret #
           enrich_contact_batch(call.contacts, TRUE,
                                [kind |-> StatusOk, results |-> <<>>]).ret

(***************************************************************************)
(* Reconciliation                                                          *)
(***************************************************************************)
Norm(text) == lower(strip(text))

NormEmail(x) == Norm(Get(x, k_email))

Response == call.response.results

\* the entries of the response with the normalized (first, last) name of the
\* contact
NameGroup(contact) ==
    LET first == Norm(Get(contact, k_first_name))
        last == Norm(Get(contact, k_last_name))
    IN {j \in 1..Len(Response) :
           /\ Norm(Get(Response[j], k_firstName)) = first
           /\ Norm(Get(Response[j], k_lastName)) = last}

\* the entries of the response with the normalized email of the contact
EmailGroup(contact) ==
    LET email == NormEmail(contact)
    IN {j \in 1..Len(Response) : NormEmail(Response[j]) = email}

\* the keys of the entries the service can answer with, and the local name
\* the code's conversion gives each of them
ExternalKeys == UNION {DOMAIN entry : entry \in EnrichResults}

SnakeOf == [key \in ExternalKeys |-> snake_case(key)]

LocalKeys(entry) == {SnakeOf[key] : key \in DOMAIN entry} \cup {k_company}

\* C7: the reconciliation returns one result per contact, the n-th being the
\* n-th contact, flagged unmatched or merged with its entry.
C7_OneResultPerContact ==
    Reconciled =>
        /\ Len(call.result.ret) = Len(call.contacts)
        /\ Len(call.result.matches) = Len(call.contacts)
        /\ \A n \in 1..Len(call.contacts) :
               LET contact == call.contacts[n]
                   result == call.result.ret[n]
                   j == call.result.matches[n]
               IN IF j = 0
                  THEN result = Put(contact, k_zi_enriched, FALSE)
                  ELSE /\ result[k_zi_enriched] = TRUE
                       /\ DOMAIN contact \subseteq DOMAIN result
                       /\ \A k \in DOMAIN contact \ LocalKeys(Response[j]) :
                              result[k] = contact[k]

C7_Witness ==
    /\ Reconciled
    /\ Len(call.contacts) = 2
    /\ Len(Response) = 3
    /\ call.contacts[1] # call.contacts[2]
    /\ call.result.matches[1] = 0
    /\ call.result.matches[2] # 0
    /\ DOMAIN call.contacts[2] \ LocalKeys(Response[call.result.matches[2]]) # {}

\* C8 as stated: the only entry with the contact's name key is the match.
C8_UniqueNameIsMatch ==
    Reconciled =>
        \A n \in 1..Len(call.contacts) : \A j \in 1..Len(Response) :
            NameGroup(call.contacts[n]) = {j} => call.result.matches[n] = j

\* C8 amended: the only entry with the contact's name key is the match when
\* it has at least one field, whatever the emails.
C8_UniqueNonEmptyNameIsMatch ==
    Reconciled =>
        \A n \in 1..Len(call.contacts) : \A j \in 1..Len(Response) :
            (NameGroup(call.contacts[n]) = {j} /\ Truthy(Response[j]))
            => call.result.matches[n] = j

\* a contact matched by name although another entry carries its email
C8_Witness ==
    /\ Reconciled
    /\ \E n \in 1..Len(call.contacts) : \E j, other \in 1..Len(Response) :
           /\ NameGroup(call.contacts[n]) = {j}
           /\ other # j
           /\ NormEmail(call.contacts[n]) # <<>>
           /\ NormEmail(Response[other]) = NormEmail(call.contacts[n])
           /\ NormEmail(Response[j]) # NormEmail(call.contacts[n])
           /\ call.result.matches[n] = j

\* C9: among several entries with the contact's name key, the match is the
\* one with the contact's email.
C9_EmailDisambiguates ==
    Reconciled =>
        \A n \in 1..Len(call.contacts) :
            LET contact == call.contacts[n]
                group == NameGroup(contact)
                same == group \cap EmailGroup(contact)
            IN (/\ Cardinality(group) >= 2
                /\ NormEmail(contact) # <<>>
                /\ same # {})
               => /\ call.result.matches[n] \in same
                  /\ \A j \in same : call.result.matches[n] <= j

\* the contact's email is that of the second entry of its name
C9_Witness ==
    /\ Reconciled
    /\ \E n \in 1..Len(call.contacts) : \E j1, j2 \in NameGroup(call.contacts[n]) :
           /\ j1 < j2
           /\ NormEmail(Response[j1]) # NormEmail(Response[j2])
           /\ NormEmail(Response[j1]) # <<>>
           /\ NormEmail(Response[j2]) = NormEmail(call.contacts[n])
           /\ call.result.matches[n] = j2

\* the name path finds nothing for the contact
NoNameMatch(contact) ==
    LET group == NameGroup(contact)
    IN \/ group = {}
       \/ /\ Cardinality(group) >= 2
          /\ group \cap EmailGroup(contact) = {}

\* C10: without a match by name, a contact with an email is matched to an
\* entry with the same normalized email.
C10_EmailFallback ==
    Reconciled =>
        \A n \in 1..Len(call.contacts) :
            LET contact == call.contacts[n]
                with_email == EmailGroup(contact)
            IN (/\ NormEmail(contact) # <<>>
                /\ with_email # {}
                /\ NoNameMatch(contact))
               => call.result.matches[n] \in with_email

\* the emails are equal only after trimming and lowercasing; the contact's
\* name is that of several entries, none with its email
C10_Witness ==
    /\ Reconciled
    /\ \E n \in 1..Len(call.contacts) :
           LET contact == call.contacts[n]
               j == call.result.matches[n]
           IN /\ Cardinality(NameGroup(contact)) >= 2
              /\ NoNameMatch(contact)
              /\ j # 0
              /\ NormEmail(Response[j]) = NormEmail(contact)
              /\ Get(Response[j], k_email) # Get(contact, k_email)

\* the contact has the normalized name of no entry, and the normalized email
\* of none
MatchesNothing(contact) ==
    /\ NameGroup(contact) = {}
    /\ NormEmail(contact) = <<>> \/ EmailGroup(contact) = {}

\* C11: a contact that matches no entry by name and none by email is returned
\* with its own fields and values, no other field, and the flag set to false.
C11_NoMatchUnchanged ==
    Reconciled =>
        \A n \in 1..Len(call.contacts) :
            MatchesNothing(call.contacts[n]) =>
                /\ call.result.matches[n] = 0
                /\ DOMAIN call.result.ret[n] = DOMAIN call.contacts[n] \cup {k_zi_enriched}
                /\ \A k \in DOMAIN call.contacts[n] :
                       call.result.ret[n][k] = call.contacts[n][k]
                /\ call.result.ret[n][k_zi_enriched] = FALSE

\* a contact without a match next to a matched one, in a response with
\* entries
C11_Witness ==
    /\ Reconciled
    /\ Len(Response) >= 2
    /\ \E n, m \in 1..Len(call.contacts) :
           /\ MatchesNothing(call.contacts[n])
           /\ NormEmail(call.contacts[n]) # <<>>
           /\ call.result.matches[m] # 0
           /\ call.result.ret[n][k_zi_enriched] = FALSE

CompanyKeySet == {CompanyKeys[n] : n \in 1..Len(CompanyKeys)}

\* C12: on a match the result has every field of the contact and every mapped
\* field of the entry, the entry's value where both define a key (an empty
\* one too), and the flag set to true.
C12_MatchMerges ==
    Reconciled =>
        \A n \in 1..Len(call.contacts) :
            LET contact == call.contacts[n]
                result == call.result.ret[n]
                j == call.result.matches[n]
                fields == IF j = 0 THEN {} ELSE DOMAIN Response[j] \ CompanyKeySet
                mapped == {SnakeOf[key] : key \in fields}
            IN j # 0 =>
                /\ DOMAIN contact \subseteq DOMAIN result
                /\ \A key \in fields :
                       /\ SnakeOf[key] \in DOMAIN result
                       /\ result[SnakeOf[key]] = Response[j][key]
                /\ \A k \in DOMAIN contact \ (mapped \cup {k_company}) :
                       result[k] = contact[k]
                /\ result[k_zi_enriched] = TRUE

\* a matched contact whose non-empty last name is replaced by the empty one
\* of its entry, and a matched contact that keeps a field of its own
C12_Witness ==
    /\ Reconciled
    /\ \E n \in 1..Len(call.contacts) :
           LET contact == call.contacts[n]
               j == call.result.matches[n]
           IN /\ j # 0
              /\ Get(contact, k_last_name) # <<>>
              /\ k_lastName \in DOMAIN Response[j]
              /\ Response[j][k_lastName] = <<>>
              /\ call.result.ret[n][k_last_name] = <<>>
    /\ \E m \in 1..Len(call.contacts) :
           /\ call.result.matches[m] # 0
           /\ k_title \in DOMAIN call.contacts[m]
           /\ call.result.ret[m][k_title] = call.contacts[m][k_title]

\* the conversion of an entry to local names, as the matched branch applies it
from_external(entry) == standardize(hoisted(entry))

\* the fields of a contact that the request carries and that are no company
\* fields
RoundTripFields == {k_first_name, k_last_name, k_email, k_title}

\* C13: converting a contact to the names of the request and back gives each
\* of first_name, last_name, email, title under its name with its value, and
\* the jobTitle of a matched entry is merged under title.
C13_MappingRoundTrip ==
    call.made =>
        /\ \A n \in 1..Len(call.contacts) :
               LET r == call.contacts[n]
                   back == from_external(person_payload(r))
               IN \A k \in RoundTripFields \cap DOMAIN r :
                      k \in DOMAIN back /\ back[k] = r[k]
        /\ Reconciled =>
               \A n \in 1..Len(call.contacts) :
                   LET j == call.result.matches[n]
                   IN (j # 0 /\ k_jobTitle \in DOMAIN Response[j]) =>
                          /\ k_title \in DOMAIN call.result.ret[n]
                          /\ call.result.ret[n][k_title] = Response[j][k_jobTitle]

\* the name of each company key in the company sub-mapping
CompanyShort ==
    (k_companyName :> <<"n","a","m","e">>)
    @@ (k_companyDomain :> <<"d","o","m","a","i","n">>)
    @@ (k_companyId :> <<"i","d">>)
    @@ (k_industry :> <<"i","n","d","u","s","t","r","y">>)
    @@ (k_companyRevenue :> <<"r","e","v","e","n","u","e">>)
    @@ (k_companyEmployees :> <<"e","m","p","l","o","y","e","e","s">>)
    @@ (k_companyLocation :> <<"l","o","c","a","t","i","o","n">>)

\* C14: the company keys of a matched entry are found in the company
\* sub-mapping of the result under name, domain, id, industry, revenue,
\* employees, location, nothing of them at the top level; an entry without
\* company keys gives no company sub-mapping.
C14_CompanyHoisted ==
    Reconciled =>
        \A n \in 1..Len(call.contacts) :
            LET contact == call.contacts[n]
                result == call.result.ret[n]
                j == call.result.matches[n]
                present == IF j = 0 THEN {} ELSE DOMAIN Response[j] \cap CompanyKeySet
            IN j # 0 =>
                IF present = {}
                THEN k_company \in DOMAIN result => k_company \in DOMAIN contact
                ELSE /\ k_company \in DOMAIN result
                     /\ DOMAIN result[k_company] = {CompanyShort[key] : key \in present}
                     /\ \A key \in present :
                            /\ result[k_company][CompanyShort[key]] = Response[j][key]
                            /\ key \notin DOMAIN result
                            /\ SnakeOf[key] \in DOMAIN result =>
                                   /\ SnakeOf[key] \in DOMAIN contact
                                   /\ result[SnakeOf[key]] = contact[SnakeOf[key]]

\* two contacts matched to the same entry, which has all seven company keys
C14_Witness ==
    /\ Reconciled
    /\ \E n, m \in 1..Len(call.contacts) :
           /\ n < m
           /\ call.result.matches[n] # 0
           /\ call.result.matches[m] = call.result.matches[n]
           /\ CompanyKeySet \subseteq DOMAIN Response[call.result.matches[n]]
           /\ Cardinality(DOMAIN call.result.ret[m][k_company]) = 7

\* C15: after a call the input contact records have the keys and values they
\* had before it, on every path.
C15_InputsUnchanged ==
    call.made => call.result.contacts = call.contacts

\* the contacts of the call that yield a non-empty payload
Sent == {n \in 1..Len(call.contacts) : Truthy(person_payload(call.contacts[n]))}

\* C16: a contact that yields an empty payload is not in the persons list and
\* has one result in the list returned, flagged false, also when no contact
\* of the batch yields a payload.
C16_EmptyPayloadAccounted ==
    (call.made /\ call.authenticated) =>
        /\ Len(batch_payload(call.contacts)) = Cardinality(Sent)
        /\ Len(call.result.ret) = Len(call.contacts)
        /\ \A n \in (1..Len(call.contacts)) \ Sent :
               /\ k_zi_enriched \in DOMAIN call.result.ret[n]
               /\ call.result.ret[n][k_zi_enriched] = FALSE
               /\ \A k \in DOMAIN call.contacts[n] :
                      call.result.ret[n][k] = call.contacts[n][k]

(***************************************************************************)
(* Batch loops: independence of the batches                                *)
(***************************************************************************)
\* the two loops of lead_gen.py that slice a list into batches:
\* main.process_file and LeadGenerator.process_contact_list
InitBatches == Init /\ orch \in {"process_file", "process_contact_list"}

NextBatches ==
    \/ PF_StartAttempt
    \/ PF_NextBatch
    \/ PF_Try
    \/ PF_Save
    \/ PF_SaveFailed
    \/ PCL_Batch
    \/ PCL_Finish

SpecBatches == InitBatches /\ [][NextBatches]_vars

\* a step of the loop that processes the batch at i
TryStep ==
    \/ pc \in {"pf_try", "st_try"}
    \/ orch = "process_contact_list" /\ pc = "pcl_batch" /\ i < total_contacts

\* the positions in contact_list of the batch at i
BatchPositions == {k \in 1..total_contacts : k > i /\ k <= i + batch_size}

\* the records a sequence gained in a step
Appended(old, new) == SubSeq(new, Len(old) + 1, Len(new))

Shifted(records, k) ==
    [n \in 1..Len(records) |-> [records[n] EXCEPT !.orig = @ + k]]

\* what a call of enrich_contact_batch can meet: the authentication fails
\* (no request is sent), or it succeeds and the service answers
CallOutcomes ==
    {<<FALSE, [kind |-> StatusError, results |-> <<>>]>>}
        \cup {<<TRUE, response>> : response \in OrchResponses}

\* the success and error records of one attempt on a list that holds the
\* batch alone, for an outcome of the authentication and an answer of the
\* service
AloneRecords(batch, authenticated, response) ==
    IF orch = "process_contact_list"
    THEN LET res == IF enricher.present
                    THEN enrich_contact_batch(batch, authenticated, response)
                    ELSE [ret |-> batch, contacts |-> batch]
             ext == extract_each(1, 0, res.contacts, res.ret,
                                 [rows |-> <<>>, errors |-> <<>>])
         IN [rows |-> ext.rows, errors |-> ext.errors]
    ELSE LET res == enrich_contact_batch(batch, authenticated, response)
             ext == extract_rows(1, 0, res.ret, [rows |-> <<>>, raised |-> FALSE])
         IN [rows |-> ext.rows,
             errors |-> IF ext.raised /\ batch_attempt >= retries
                        THEN batch_errors(1, 0, res.contacts,
                                          <<BatchErrorPrefix, NoFieldsError>>)
                        ELSE <<>>]

\* C17: a step on one batch leaves the records of the other batches and the
\* other batches themselves as they are, adds the records the batch alone
\* gives, and whatever its outcome the loop goes on to every later batch.
C17_BatchesIndependent ==
    [][ /\ TryStep =>
            /\ \A k \in (1..total_contacts) \ BatchPositions :
                   contact_list'[k] = contact_list[k]
            /\ \A k \in 1..total_contacts :
                   k > i + batch_size => contact_list[k] = contacts_df[k]
            /\ SubSeq(processed_contacts', 1, Len(processed_contacts)) = processed_contacts
            /\ SubSeq(errors', 1, Len(errors)) = errors
            /\ \E outcome \in CallOutcomes :
                   \E alone \in {AloneRecords(
                                     SubSeq(contact_list, i + 1,
                                            Min(i + batch_size, total_contacts)),
                                     outcome[1], outcome[2])} :
                       /\ Appended(processed_contacts, processed_contacts')
                              = Shifted(alone.rows, i)
                       /\ Appended(errors, errors') = Shifted(alone.errors, i)
            /\ i' \in {i, i + batch_size}
            /\ (i' < total_contacts /\ orch # "process_contact_list")
                   => pc' \in {"pf_batch", "st_batch", pc}
        /\ (pc \in {"pf_batch", "st_batch"} /\ i < total_contacts)
               => pc' \in {"pf_try", "st_try"}
        /\ LoopFinished => i >= total_contacts
      ]_vars

\* the first batch ended with error records, a later batch gave a success
\* record
C17_Witness ==
    /\ LoopFinished
    /\ errors # <<>>
    /\ errors[1].orig <= batch_size
    /\ \E n \in 1..Len(processed_contacts) : processed_contacts[n].orig > batch_size

(***************************************************************************)
(* main: file workers of the thread pool on the one enricher               *)
(***************************************************************************)
\* executor.submit(process_file, f) for f in files_to_run
Workers == 1..MaxWorkers

\* what the service answers to a request that carries the Authorization
\* header; the service answers alike to every worker
PoolResponses ==
    { [kind |-> StatusOk, results |-> <<e_jane>>],
      [kind |-> StatusError, results |-> <<>>] }

\* the locals of process_file(file_path) when the worker starts
worker_start(file) ==
    [contacts_df |-> file, pc |-> "pf_batch", contact_list |-> file, i |-> 0,
     batch_attempt |-> 0, processed_contacts |-> <<>>, errors |-> <<>>,
     num_success |-> 0, num_errors |-> 0]

\* enricher = ZoomInfoEnricher() is made once; self.headers is set by
\* _authenticate only, so the attribute does not exist before (FALSE)
InitWorkers ==
    /\ orch = "main"
    /\ contacts_df = <<>>
    /\ batch_size \in 1..MaxBatchSize
    /\ retries \in 0..MaxRetries
    /\ enricher \in [present : {TRUE}, api_key : BOOLEAN, auth_token : {FALSE},
                     token_expiry : {FALSE}, headers : {FALSE}]
    /\ pc = "pool"
    /\ attempt = 0
    /\ contact_list = <<>>
    /\ i = 0
    /\ batch_attempt = 0
    /\ processed_contacts = <<>>
    /\ errors = <<>>
    /\ num_success = 0
    /\ num_errors = 0
    /\ batch_log = <<>>
    /\ call = NoCall
    /\ qualify = NoCall
    /\ slept = <<>>
    /\ calls = 0
    /\ \E files \in [Workers -> SeqsUpTo(OrchContacts, MaxFileLen)],
          auth_status \in {StatusOk, StatusError}, response \in PoolResponses :
           pool = [started |-> TRUE, auth_status |-> auth_status,
                   response |-> response,
                   worker |-> [w \in Workers |-> worker_start(files[w])]]

pool_frame == <<config_vars, pc, attempt, contact_list, i, batch_attempt,
                processed_contacts, errors, num_success, num_errors, batch_log,
                call, qualify, slept, calls>>

at(w, label) == orch = "main" /\ pool.worker[w].pc = label

goto(w, label) == pool' = [pool EXCEPT !.worker[w].pc = label]

\* for i in range(0, total_contacts, args.batch_size), and the
\* for batch_attempt in range(args.retries + 1) it opens
W_NextBatch(w) ==
    /\ at(w, "pf_batch")
    /\ IF pool.worker[w].i < Len(pool.worker[w].contacts_df)
       THEN pool' = [pool EXCEPT !.worker[w].batch_attempt = 0,
                                 !.worker[w].pc = "pf_try"]
       ELSE goto(w, "pf_save")
    /\ UNCHANGED <<pool_frame, enricher>>

\* _authenticate, its first test and the branch on self.api_key
W_AuthCheck(w) ==
    /\ at(w, "pf_try")
    /\ IF enricher.auth_token /\ enricher.token_expiry
       THEN goto(w, "request")
       ELSE IF enricher.api_key
       THEN goto(w, "key_headers")
       ELSE goto(w, "auth_post")
    /\ UNCHANGED <<pool_frame, enricher>>

\* self.headers = {...Bearer api_key}
W_KeyHeaders(w) ==
    /\ at(w, "key_headers")
    /\ enricher' = [enricher EXCEPT !.headers = TRUE]
    /\ goto(w, "key_expiry")
    /\ UNCHANGED pool_frame

\* self.token_expiry = now + 1 day; return True
W_KeyExpiry(w) ==
    /\ at(w, "key_expiry")
    /\ enricher' = [enricher EXCEPT !.token_expiry = TRUE]
    /\ goto(w, "request")
    /\ UNCHANGED pool_frame

\* one attempt on the batch from the return of _authenticate on: the rest of
\* enrich_contact_batch, the row loop of process_file and what follows it
finish_attempt(w, authenticated, response) ==
    LET wk == pool.worker[w] IN
    \E res \in {enrich_contact_batch(batch_of(wk.contact_list, wk.i, batch_size),
                                     authenticated, response)} :
    \E ext \in {extract_rows(1, wk.i, res.ret, [rows |-> <<>>, raised |-> FALSE])} :
    \E again \in {ext.raised /\ wk.batch_attempt < retries} :
        pool' = [pool EXCEPT !.worker[w] =
                   [wk EXCEPT
                      !.contact_list = with_batch(wk.contact_list, wk.i, res.contacts),
                      !.processed_contacts = @ \o ext.rows,
                      !.errors = IF ext.raised /\ ~again
                                 THEN @ \o batch_errors(1, wk.i, res.contacts,
                                                <<BatchErrorPrefix, NoFieldsError>>)
                                 ELSE @,
                      !.i = IF again THEN @ ELSE @ + batch_size,
                      !.batch_attempt = IF again THEN @ + 1 ELSE @,
                      !.pc = IF again THEN "pf_try" ELSE "pf_batch"]]

\* requests.post(auth_endpoint, ...): 200 goes on to the three assignments,
\* another status returns False and enrich_contact_batch returns its input
W_AuthPost(w) ==
    /\ at(w, "auth_post")
    /\ IF pool.auth_status = StatusOk
       THEN goto(w, "set_token")
       ELSE finish_attempt(w, FALSE, [kind |-> StatusError, results |-> <<>>])
    /\ UNCHANGED <<pool_frame, enricher>>

\* self.auth_token = auth_data.get("token")
W_SetToken(w) ==
    /\ at(w, "set_token")
    /\ enricher' = [enricher EXCEPT !.auth_token = TRUE]
    /\ goto(w, "set_expiry")
    /\ UNCHANGED pool_frame

\* self.token_expiry = now + expires_in
W_SetExpiry(w) ==
    /\ at(w, "set_expiry")
    /\ enricher' = [enricher EXCEPT !.token_expiry = TRUE]
    /\ goto(w, "set_headers")
    /\ UNCHANGED pool_frame

\* self.headers = {...Bearer auth_token}; return True
W_SetHeaders(w) ==
    /\ at(w, "set_headers")
    /\ enricher' = [enricher EXCEPT !.headers = TRUE]
    /\ goto(w, "request")
    /\ UNCHANGED pool_frame

\* requests.post(endpoint, headers=self.headers, ...) inside the try: reading
\* an attribute that no thread has assigned yet raises AttributeError, which
\* the except of enrich_contact_batch handles as it handles a failed request
W_Request(w) ==
    /\ at(w, "request")
    /\ finish_attempt(w, TRUE,
                      IF enricher.headers THEN pool.response
                      ELSE [kind |-> TransportError, results |-> <<>>])
    /\ UNCHANGED <<pool_frame, enricher>>

\* the frames are built and written to the paths of the worker's file
W_Save(w) ==
    /\ at(w, "pf_save")
    /\ pool' = [pool EXCEPT
                  !.worker[w].num_success = Len(pool.worker[w].processed_contacts),
                  !.worker[w].num_errors = Len(pool.worker[w].errors),
                  !.worker[w].pc = "done"]
    /\ UNCHANGED <<pool_frame, enricher>>

NextWorkers ==
    \E w \in Workers :
        \/ W_NextBatch(w)
        \/ W_AuthCheck(w)
        \/ W_KeyHeaders(w)
        \/ W_KeyExpiry(w)
        \/ W_AuthPost(w)
        \/ W_SetToken(w)
        \/ W_SetExpiry(w)
        \/ W_SetHeaders(w)
        \/ W_Request(w)
        \/ W_Save(w)

SpecWorkers == InitWorkers /\ [][NextWorkers]_vars

\* the attempts of process_file on one batch when no other worker runs
RECURSIVE alone_attempts(_, _, _, _, _)
alone_attempts(batch, start, try, authenticated, response) ==
    LET res == enrich_contact_batch(batch, authenticated, response)
        ext == extract_rows(1, start, res.ret, [rows |-> <<>>, raised |-> FALSE])
    IN IF ~ext.raised
       THEN [rows |-> ext.rows, errors |-> <<>>]
       ELSE IF try < retries
       THEN LET rest == alone_attempts(res.contacts, start, try + 1,
                                       authenticated, response)
            IN [rows |-> ext.rows \o rest.rows, errors |-> rest.errors]
       ELSE [rows |-> ext.rows,
             errors |-> batch_errors(1, start, res.contacts,
                                     <<BatchErrorPrefix, NoFieldsError>>)]

\* the records of process_file on the file when no other worker runs
RECURSIVE alone_file(_, _, _, _)
alone_file(file, start, authenticated, response) ==
    IF start >= Len(file)
    THEN [rows |-> <<>>, errors |-> <<>>]
    ELSE LET here == alone_attempts(batch_of(file, start, batch_size), start, 0,
                                    authenticated, response)
             rest == alone_file(file, start + batch_size, authenticated, response)
         IN [rows |-> here.rows \o rest.rows, errors |-> here.errors \o rest.errors]

\* C18: the success and error records a worker ends with are those of its
\* file processed alone against the same service, whatever the other worker
\* did on the enricher meanwhile.
C18_WorkersIndependent ==
    pool.started =>
        \A w \in Workers :
            pool.worker[w].pc = "done" =>
                \E alone \in {alone_file(pool.worker[w].contacts_df, 0,
                                         enricher.api_key \/ pool.auth_status = StatusOk,
                                         pool.response)} :
                    /\ pool.worker[w].processed_contacts = alone.rows
                    /\ pool.worker[w].errors = alone.errors

(***************************************************************************)
(* ContactQualifier                                                        *)
(***************************************************************************)

k_department == <<"d","e","p","a","r","t","m","e","n","t">>
k_company_size == <<"c","o","m","p","a","n","y","_","s","i","z","e">>
k_employees == <<"e","m","p","l","o","y","e","e","s">>
k_company_industry == <<"c","o","m","p","a","n","y","_","i","n","d","u","s","t","r","y">>
k_company_location == <<"c","o","m","p","a","n","y","_","l","o","c","a","t","i","o","n">>
k_location == <<"l","o","c","a","t","i","o","n">>
k_qualification == <<"q","u","a","l","i","f","i","c","a","t","i","o","n">>

\* sub in s
contains(sub, s) ==
    \E n \in 0..(Len(s) - Len(sub)) : SubSeq(s, n + 1, n + Len(sub)) = sub

\* [k.lower() for k in keywords]
lower_all(keywords) == [n \in 1..Len(keywords) |-> lower(keywords[n])]

\* ContactQualifier.__init__
ContactQualifier(title_keywords, department_keywords, min_company_size, max_company_size, target_industries, target_locations) ==
    [title_keywords |-> lower_all(title_keywords),
     department_keywords |-> lower_all(department_keywords),
     min_company_size |-> min_company_size,
     max_company_size |-> max_company_size,
     target_industries |-> lower_all(target_industries),
     target_locations |-> lower_all(target_locations)]

DigitChars == <<"0","1","2","3","4","5","6","7","8","9">>

is_digit(c) == \E n \in 1..10 : DigitChars[n] = c

digit_value(c) == (CHOOSE n \in 1..10 : DigitChars[n] = c) - 1

\* int(s) raises no ValueError: decimal digits (the inputs hold no sign,
\* underscore or inner blank)
int_parses(s) == s # <<>> /\ \A n \in 1..Len(s) : is_digit(s[n])

\* int(s)
RECURSIVE int_value(_)
int_value(s) ==
    IF s = <<>> THEN 0
    ELSE 10 * int_value(SubSeq(s, 1, Len(s) - 1)) + digit_value(s[Len(s)])

\* s.split(ch)[0]
split_first(s, ch) ==
    IF find(s, ch) = 0 THEN s ELSE SubSeq(s, 1, find(s, ch) - 1)

\* the text handed to int() for a company size
size_literal(company_size_str) ==
    IF find(company_size_str, "-") # 0
    THEN strip(remove_all(remove_all(split_first(company_size_str, "-"),
                                     <<",">>), <<"+">>))
    ELSE IF find(company_size_str, "+") # 0
    THEN strip(remove_all(remove_all(company_size_str, <<",">>), <<"+">>))
    ELSE strip(remove_all(company_size_str, <<",">>))

\* what one criterion adds to max_score, to score and to reasons
NotCounted == [max_score |-> 0, score |-> 0, reasons |-> <<>>]

counted(criterion, points, reason) ==
    [max_score |-> 1, score |-> points,
     reasons |-> <<[criterion |-> criterion, reason |-> reason]>>]

\* value.lower(), then for keyword in keywords: if keyword in value ... break,
\* else: no keyword matched
keyword_match(criterion, keywords, value) ==
    IF \E n \in 1..Len(keywords) : contains(keywords[n], lower(value))
    THEN counted(criterion, 1, "matches")
    ELSE counted(criterion, 0, "does not match")

\* contact_data["company"].get(k) when "company" is in contact_data and is a
\* dict; the value at "company" is [is_dict, fields]
company_get(contact_data, k) ==
    IF k_company \in DOMAIN contact_data /\ contact_data[k_company].is_dict
    THEN Get(contact_data[k_company].fields, k)
    ELSE <<>>

title_criterion(self, contact_data) ==
    IF self.title_keywords # <<>> /\ k_title \in DOMAIN contact_data
    THEN keyword_match("title", self.title_keywords, contact_data[k_title])
    ELSE NotCounted

department_criterion(self, contact_data) ==
    IF self.department_keywords # <<>> /\ k_department \in DOMAIN contact_data
    THEN keyword_match("department", self.department_keywords,
                       contact_data[k_department])
    ELSE NotCounted

company_size_str_of(contact_data) ==
    IF Get(contact_data, k_company_size) # <<>>
    THEN Get(contact_data, k_company_size)
    ELSE company_get(contact_data, k_employees)

\* mutant of company_size_criterion: a size that cannot be parsed is
\* counted and leaves no reason
company_size_criterion_silent(self, contact_data) ==
    IF company_size_str_of(contact_data) = <<>>
    THEN NotCounted
    ELSE IF ~int_parses(size_literal(company_size_str_of(contact_data)))
    THEN [max_score |-> 1, score |-> 0, reasons |-> <<>>]
    ELSE IF /\ self.min_company_size
                  <= int_value(size_literal(company_size_str_of(contact_data)))
            /\ int_value(size_literal(company_size_str_of(contact_data)))
                  <= self.max_company_size
    THEN counted("company_size", 1, "within target range")
    ELSE counted("company_size", 0, "outside target range")

company_size_criterion(self, contact_data) ==
    IF company_size_str_of(contact_data) = <<>>
    THEN NotCounted
    ELSE IF ~int_parses(size_literal(company_size_str_of(contact_data)))
    THEN counted("company_size", 0, "could not determine")
    ELSE IF /\ self.min_company_size
                  <= int_value(size_literal(company_size_str_of(contact_data)))
            /\ int_value(size_literal(company_size_str_of(contact_data)))
                  <= self.max_company_size
    THEN counted("company_size", 1, "within target range")
    ELSE counted("company_size", 0, "outside target range")

\* mutant of industry_str_of: the company sub-record is not consulted
industry_str_top(contact_data) == Get(contact_data, k_company_industry)

industry_str_of(contact_data) ==
    IF Get(contact_data, k_company_industry) # <<>>
    THEN Get(contact_data, k_company_industry)
    ELSE company_get(contact_data, k_industry)

industry_criterion(self, contact_data) ==
    IF industry_str_of(contact_data) # <<>> /\ self.target_industries # <<>>
    THEN keyword_match("industry", self.target_industries,
                       industry_str_of(contact_data))
    ELSE NotCounted

location_str_of(contact_data) ==
    IF Get(contact_data, k_company_location) # <<>>
    THEN Get(contact_data, k_company_location)
    ELSE IF company_get(contact_data, k_location) # <<>>
    THEN company_get(contact_data, k_location)
    ELSE Get(contact_data, k_location)

location_criterion(self, contact_data) ==
    IF location_str_of(contact_data) # <<>> /\ self.target_locations # <<>>
    THEN keyword_match("location", self.target_locations,
                       location_str_of(contact_data))
    ELSE NotCounted

email_criterion(contact_data) ==
    IF Get(contact_data, k_email) = <<>>
    THEN NotCounted
    ELSE IF find(contact_data[k_email], "@") # 0
    THEN counted("email", 1, "valid")
    ELSE counted("email", 0, "appears invalid")

\* the criteria in the order of the code
criteria(self, contact_data) ==
    <<title_criterion(self, contact_data),
      department_criterion(self, contact_data),
      company_size_criterion(self, contact_data),
      industry_criterion(self, contact_data),
      location_criterion(self, contact_data),
      email_criterion(contact_data)>>

\* the percentage is held in sixtieths of a percent, which is exact for
\* max_score up to 6; the doubles of score / max_score * 100 compare to 60
\* as the exact quotients do (3 / 5 * 100 evaluates to 60.0)
PercentUnit == 60

percentage_score(score, max_score) ==
    IF max_score > 0 THEN (score * 100 * PercentUnit) \div max_score ELSE 0

\* mutant of qualified: the threshold itself does not qualify
qualified_above(percentage) == percentage > 60 * PercentUnit

\* percentage_score >= 60
qualified(percentage) == percentage >= 60 * PercentUnit

verdict(parts) ==
    LET score == parts[1].score + parts[2].score + parts[3].score
                     + parts[4].score + parts[5].score + parts[6].score
        max_score == parts[1].max_score + parts[2].max_score + parts[3].max_score
                         + parts[4].max_score + parts[5].max_score + parts[6].max_score
    IN [score |-> score,
        max_score |-> max_score,
        percentage_score |-> percentage_score(score, max_score),
        reasons |-> parts[1].reasons \o parts[2].reasons \o parts[3].reasons
                        \o parts[4].reasons \o parts[5].reasons \o parts[6].reasons,
        qualified |-> qualified(percentage_score(score, max_score))]

\* result = contact_data.copy(); result["qualification"] = {...}
qualify_contact(self, contact_data) ==
    Put(contact_data, k_qualification, verdict(criteria(self, contact_data)))

(***************************************************************************)
(* One call of qualify_contact                                             *)
(***************************************************************************)
t_Sales == <<"S","a","l","e","s">>
t_Tech == <<"T","e","c","h">>
t_LA == <<"L","A">>
t_50_100 == <<"5","0","-","1","0","0">>
t_1200_plus == <<"1",",","2","0","0","+">>
t_abc == <<"a","b","c">>
t_jx_no_at == <<"j","x">>

\* a field of the record: no such key ({}), or the key with one value
absent == {}

with_field(d, k, option) ==
    IF option = {} THEN d ELSE Put(d, k, CHOOSE v \in option : TRUE)

\* the value at "company": a text (not a dict), or the sub-record
company_text == [is_dict |-> FALSE, fields |-> EmptyDict]

company_dict ==
    [is_dict |-> TRUE,
     fields |-> (k_employees :> t_1200_plus) @@ (k_industry :> t_IT)
                    @@ (k_location :> t_NY)]

QualifyContacts ==
    { with_field(with_field(with_field(with_field(with_field(with_field(
          with_field(with_field(EmptyDict,
              k_title, title), k_department, department),
              k_company_size, company_size), k_company, company),
              k_company_industry, company_industry),
              k_company_location, company_location),
              k_location, location), k_email, email) :
        title \in {absent, {<<>>}, {t_CTO}, {t_VP}},
        department \in {absent, {t_Sales}},
        company_size \in {absent, {<<>>}, {t_50_100}, {t_abc}},
        company \in {absent, {company_text}, {company_dict}},
        company_industry \in {absent, {t_Tech}},
        company_location \in {absent, {t_LA}},
        location \in {absent, {t_NY}},
        email \in {absent, {<<>>}, {t_jx}, {t_jx_no_at}} }

\* ContactQualifier(...) with the default size range; every list is empty or
\* holds the keyword, the title list up to MaxKeywords times
Qualifiers ==
    { ContactQualifier(title_keywords, department_keywords, 50, 1000,
                       target_industries, target_locations) :
        title_keywords \in SeqsUpTo({t_CTO}, MaxKeywords),
        department_keywords \in {<<>>, <<t_Sales>>},
        target_industries \in {<<>>, <<t_Tech>>},
        target_locations \in {<<>>, <<t_NY>>} }

InitQualify ==
    /\ orch = "qualify_contact"
    /\ contacts_df = <<>>
    /\ batch_size = 1
    /\ retries = 0
    /\ enricher = [present |-> FALSE, api_key |-> FALSE, auth_token |-> FALSE]
    /\ pc = "call"
    /\ attempt = 0
    /\ contact_list = <<>>
    /\ i = 0
    /\ batch_attempt = 0
    /\ processed_contacts = <<>>
    /\ errors = <<>>
    /\ num_success = 0
    /\ num_errors = 0
    /\ batch_log = <<>>
    /\ call = NoCall
    /\ pool = NoPool
    /\ slept = <<>>
    /\ calls = 0
    /\ \E self \in Qualifiers, contact_data \in QualifyContacts :
           qualify = [made |-> FALSE, self |-> self, contact_data |-> contact_data]

\* the call returns: qualify.result holds the returned record
Qualify ==
    /\ orch = "qualify_contact" /\ pc = "call"
    /\ \E result \in {qualify_contact(qualify.self, qualify.contact_data)} :
           qualify' = [made |-> TRUE, self |-> qualify.self,
                       contact_data |-> qualify.contact_data, result |-> result]
    /\ pc' = "returned"
    /\ UNCHANGED <<config_vars, enricher, attempt, contact_list, i, batch_attempt,
                   processed_contacts, errors, num_success, num_errors, batch_log,
                   call, pool, slept, calls>>

NextQualify == Qualify

SpecQualify == InitQualify /\ [][NextQualify]_vars

\* the verdict of the call
Qualification == qualify.result[k_qualification]

\* C19: qualified is true exactly when max_score > 0 and
\* 100 * score >= 60 * max_score; with max_score = 0 the percentage is 0 and
\* qualified is false.
C19_QualifiedThreshold ==
    qualify.made =>
        /\ Qualification.qualified
               <=> (/\ Qualification.max_score > 0
                    /\ 100 * Qualification.score >= 60 * Qualification.max_score)
        /\ Qualification.max_score = 0
               => (Qualification.percentage_score = 0 /\ ~Qualification.qualified)

\* a record at the threshold, 3 of 5, is qualified
C19_Witness ==
    /\ qualify.made
    /\ Qualification.max_score = 5
    /\ Qualification.score = 3
    /\ Qualification.qualified

\* what each criterion added in the call, in the order of the code
Parts == criteria(qualify.self, qualify.contact_data)

\* the record has a value for a field: under the top-level key or, failing
\* that, under the key of the company sub-record
HasValue(contact_data, top, nested) ==
    Get(contact_data, top) # <<>> \/ company_get(contact_data, nested) # <<>>

\* C20: a criterion is counted in max_score only if the record has a value
\* for its field and, for title, department, industry and location, the
\* target list is not empty; max_score counts nothing else.
C20_CountedOnlyWithValue ==
    qualify.made =>
        /\ Parts[1].max_score = 1
               => (/\ qualify.self.title_keywords # <<>>
                   /\ HasValue(qualify.contact_data, k_title, k_title))
        /\ Parts[2].max_score = 1
               => (/\ qualify.self.department_keywords # <<>>
                   /\ HasValue(qualify.contact_data, k_department, k_department))
        /\ Parts[3].max_score = 1
               => HasValue(qualify.contact_data, k_company_size, k_employees)
        /\ Parts[4].max_score = 1
               => (/\ qualify.self.target_industries # <<>>
                   /\ HasValue(qualify.contact_data, k_company_industry, k_industry))
        /\ Parts[5].max_score = 1
               => (/\ qualify.self.target_locations # <<>>
                   /\ \/ HasValue(qualify.contact_data, k_company_location, k_location)
                      \/ Get(qualify.contact_data, k_location) # <<>>)
        /\ Parts[6].max_score = 1
               => Get(qualify.contact_data, k_email) # <<>>
        /\ Qualification.max_score
               = Cardinality({n \in 1..6 : Parts[n].max_score = 1})

\* the keyword criteria: their place among the criteria and their target list
KeywordCriteria == {1, 2, 4, 5}

TargetList ==
    (1 :> "title_keywords") @@ (2 :> "department_keywords")
        @@ (4 :> "target_industries") @@ (5 :> "target_locations")

\* the value the record has for the field of a keyword criterion
FieldValue(c, contact_data) ==
    IF c = 1 THEN Get(contact_data, k_title)
    ELSE IF c = 2 THEN Get(contact_data, k_department)
    ELSE IF c = 4
    THEN (IF Get(contact_data, k_company_industry) # <<>>
          THEN Get(contact_data, k_company_industry)
          ELSE company_get(contact_data, k_industry))
    ELSE IF Get(contact_data, k_company_location) # <<>>
    THEN Get(contact_data, k_company_location)
    ELSE IF company_get(contact_data, k_location) # <<>>
    THEN company_get(contact_data, k_location)
    ELSE Get(contact_data, k_location)

\* the texts contained in a text
Substrings(s) ==
    {<<>>} \cup {SubSeq(s, a, b) : a \in 1..Len(s), b \in 1..Len(s)}

\* the qualifier of the call with the target list of one criterion replaced
\* (the constructor lowers the keywords)
WithTargets(c, keywords) ==
    [qualify.self EXCEPT ![TargetList[c]] = lower_all(keywords)]

\* C21: for a call made with the target list of a keyword criterion empty
\* and a record with a value for the criterion's field, one keyword contained
\* in the value put in that list raises max_score by 1, score by 0 or 1, and
\* leaves the other criteria as they were.
C21_KeywordMonotone ==
    qualify.made =>
        \A c \in KeywordCriteria :
            (/\ qualify.self[TargetList[c]] = <<>>
             /\ FieldValue(c, qualify.contact_data) # <<>>) =>
                \E before \in {Parts} :
                \A keyword \in Substrings(FieldValue(c, qualify.contact_data)) :
                    \E after \in {criteria(WithTargets(c, <<keyword>>),
                                           qualify.contact_data)} :
                        /\ before[c].max_score = 0
                        /\ after[c].max_score = 1
                        /\ before[c].score = 0
                        /\ after[c].score \in {0, 1}
                        /\ \A m \in (1..6) \ {c} : after[m] = before[m]
                        /\ verdict(after).max_score = Qualification.max_score + 1
                        /\ verdict(after).score - Qualification.score \in {0, 1}

\* the call was made with the industry list empty on a record that has its
\* industry in the company sub-record only; the industry as keyword is
\* counted and scores
C21_Witness ==
    /\ qualify.made
    /\ qualify.self.target_industries = <<>>
    /\ Get(qualify.contact_data, k_company_industry) = <<>>
    /\ FieldValue(4, qualify.contact_data) # <<>>
    /\ Parts[4].max_score = 0
    /\ criteria(WithTargets(4, <<FieldValue(4, qualify.contact_data)>>),
                qualify.contact_data)[4].score = 1

\* the last position of a non-empty set of positions
Last(positions) == CHOOSE j \in positions : \A other \in positions : other <= j

\* the positions of a sequence are in increasing order
Increasing(positions) ==
    \A a, b \in 1..Len(positions) : a < b => positions[a] < positions[b]

\* the normalized email and the normalized (first, last) name of each entry
\* a response can hold
EntryEmail == [entry \in EnrichResults |-> NormEmail(entry)]

EntryName == [entry \in EnrichResults |-> <<Norm(Get(entry, k_firstName)), Norm(Get(entry, k_lastName))>>]

\* C22: the email index maps each non-empty normalized email to the last
\* entry that has it, a contact resolved by the email fallback is matched to
\* that entry, and the name index maps each name key to all entries that
\* have it, in response order.
C22_IndexesKeepLastEmailAllNames ==
    Reconciled =>
        \E results_by_email \in {build_results_by_email(Response, 1, EmptyDict)} :
        \E results_by_name \in {build_results_by_name(Response, 1, EmptyDict)} :
        \E emails \in {[j \in 1..Len(Response) |-> EntryEmail[Response[j]]]} :
        \E names \in {[j \in 1..Len(Response) |-> EntryName[Response[j]]]} :
            /\ DOMAIN results_by_email = {emails[j] : j \in 1..Len(Response)} \ {<<>>}
            /\ \A j \in 1..Len(Response) :
                   emails[j] # <<>> =>
                       results_by_email[emails[j]]
                           = Last({m \in 1..Len(Response) : emails[m] = emails[j]})
            /\ \A n \in 1..Len(call.contacts) :
                   (/\ NormEmail(call.contacts[n]) # <<>>
                    /\ EmailGroup(call.contacts[n]) # {}
                    /\ NoNameMatch(call.contacts[n]))
                   => call.result.matches[n] = Last(EmailGroup(call.contacts[n]))
            /\ DOMAIN results_by_name = {names[j] : j \in 1..Len(Response)}
            /\ \A key \in DOMAIN results_by_name :
                   /\ Increasing(results_by_name[key])
                   /\ {results_by_name[key][a] : a \in 1..Len(results_by_name[key])}
                          = {j \in 1..Len(Response) : names[j] = key}

\* two different entries have the contact's email, the contact has the name
\* of neither and is matched to the later one; two entries share a name
C22_Witness ==
    /\ Reconciled
    /\ \E n \in 1..Len(call.contacts) : \E j1, j2 \in EmailGroup(call.contacts[n]) :
           /\ j1 < j2
           /\ Response[j1] # Response[j2]
           /\ NormEmail(call.contacts[n]) # <<>>
           /\ NoNameMatch(call.contacts[n])
           /\ call.result.matches[n] = j2
    /\ \E j1, j2 \in 1..Len(Response) :
           /\ j1 < j2
           /\ Response[j1] # Response[j2]
           /\ name_key_of(Response[j1], k_firstName, k_lastName)
                  = name_key_of(Response[j2], k_firstName, k_lastName)

(***************************************************************************)
(* Batch loops: pacing                                                     *)
(***************************************************************************)
\* the starts of the batches of the list
BatchStarts == {b \in 0..(total_contacts - 1) : b % batch_size = 0}

\* C23: the pacing delay has followed exactly the batches gone through that
\* have a batch after them: one delay before each next batch, none after
\* the last batch.
C23_PacingOnlyBetweenBatches ==
    /\ \A a, b \in 1..Len(slept) : a < b => slept[a] < slept[b]
    /\ {slept[n] : n \in 1..Len(slept)}
           = {b \in BatchStarts : b < i /\ b + batch_size < total_contacts}

(***************************************************************************)
(* Batch loops: progress                                                   *)
(***************************************************************************)
\* the loops take their steps: nothing in them waits for another party (a
\* request and a sleep return). An attempt on a batch is possible exactly
\* when the loop of process_file stands at its try block, and a pass of the
\* loop of process_contact_list exactly when it has a batch left, so the
\* weak fairness of PF_Try and of PCL_Batch is written with these conditions
\* in the place of ENABLED.
TryEnabled == orch = "process_file" /\ pc = "pf_try"

BatchEnabled == orch = "process_contact_list" /\ pc = "pcl_batch" /\ i < total_contacts

FairSpecBatches ==
    /\ InitBatches
    /\ [][NextBatches]_vars
    /\ WF_vars(PF_StartAttempt)
    /\ WF_vars(PF_NextBatch)
    /\ ([]<>(~TryEnabled) \/ []<><<PF_Try>>_vars)
    /\ WF_vars(PF_Save)
    /\ WF_vars(PF_SaveFailed)
    /\ ([]<>(~BatchEnabled) \/ []<><<PCL_Batch>>_vars)
    /\ WF_vars(PCL_Finish)

\* the states of the batch that starts at b
Pending(b) == b \in BatchStarts /\ pc # "done" /\ i <= b /\ ~(pc = "pf_try" /\ i = b)

InFlight(b) == b \in BatchStarts /\ pc = "pf_try" /\ i = b

Settled(b) == b \in BatchStarts /\ i > b

\* FAILED: the batch as a whole went to the error sequence
Failed(b) ==
    \E n \in 1..Len(errors) :
        /\ errors[n].orig > b
        /\ errors[n].orig <= b + batch_size
        /\ errors[n].error[1] = BatchErrorPrefix

\* the run has ended and has handed over the success and the error sequence
Terminated ==
    /\ pc = "done"
    /\ i >= total_contacts
    /\ \/ num_success = Len(processed_contacts)
       \/ orch = "process_file" /\ num_success = 0 /\ num_errors = total_contacts

\* C24: a batch that waits leaves that state only by being taken up, is
\* settled only from there, FAILED only when retry_limit + 1 attempts on it
\* have failed; the run terminates with every batch settled, SUCCESS or
\* FAILED, and with the success and the error sequence.
C24_BatchesSettleRunTerminates ==
    /\ [](\A b \in BatchStarts :
              Failed(b) =>
                  /\ Settled(b)
                  /\ (i = b + batch_size /\ pc \in {"pf_batch", "pf_save"})
                         => (/\ Len(batch_log) = retries + 1
                             /\ \A n \in 1..Len(batch_log) : batch_log[n].raised))
    /\ [][\A b \in BatchStarts :
              /\ (Pending(b) /\ ~Pending(b)' /\ orch = "process_file")
                     => (InFlight(b)' \/ pc' = "done")
              /\ (Settled(b)' /\ ~Settled(b))
                     => (InFlight(b) \/ orch = "process_contact_list")]_vars
    /\ <>[](Terminated /\ \A b \in BatchStarts : Settled(b))

\* the run has ended, its first batch FAILED after retry_limit + 1 attempts
\* with a retry among them, a later batch is a SUCCESS
C24_Witness ==
    /\ Terminated
    /\ orch = "process_file"
    /\ retries >= 1
    /\ Failed(0)
    /\ \E b \in BatchStarts : b > 0 /\ ~Failed(b)
    /\ processed_contacts # <<>>

(***************************************************************************)
(* process_contact_list: calls on one LeadGenerator                        *)
(***************************************************************************)
InitCalls == Init /\ orch = "process_contact_list"

NextCalls ==
    \/ PCL_Batch
    \/ PCL_Finish
    \/ PCL_Again

SpecCalls == InitCalls /\ [][NextCalls]_vars

\* C25: when a call of process_contact_list has returned, the error records
\* it reports concern contacts of that call's list only: each is the record
\* at one position of the list, no position twice, and the error count is
\* the number of these records.
C25_ErrorsOfThisCall ==
    (orch = "process_contact_list" /\ pc = "done") =>
        /\ num_errors = Len(errors)
        /\ Len(errors) <= total_contacts
        /\ \A n \in 1..Len(errors) :
               /\ errors[n].orig \in 1..total_contacts
               /\ errors[n].contact = contact_list[errors[n].orig]
               /\ \A m \in 1..(n - 1) : errors[m].orig < errors[n].orig

(***************************************************************************)
(* enrich_contact_batch: what the caller gets when the call fails          *)
(***************************************************************************)
\* the call did not come to reconcile a response: the authentication
\* failed, there was nothing to send, the status was not 200, or an
\* exception was raised inside the try block
CallFailed == call.made /\ ~Reconciled

\* C26: on every path enrich_contact_batch returns a list as long as its
\* input; when the call fails the list holds the input contacts in order,
\* each with the keys and values it had (zi_enriched apart), so the row
\* loop of the caller reads from it what it would read from the input.
C26_FailureReturnsInputs ==
    call.made =>
        /\ Len(call.result.ret) = Len(call.contacts)
        /\ CallFailed =>
               /\ call.result.ret = call.result.contacts
               /\ \A n \in 1..Len(call.contacts) :
                      /\ DOMAIN call.result.ret[n] \ {k_zi_enriched}
                             = DOMAIN call.contacts[n]
                      /\ \A k \in DOMAIN call.contacts[n] :
                             call.result.ret[n][k] = call.contacts[n][k]
                      /\ output_row(call.result.ret[n]) = output_row(call.contacts[n])

\* a call with two contacts, one of them without email, failed on a body
\* that could not be read
C26_Witness ==
    /\ CallFailed
    /\ call.authenticated
    /\ call.response.kind = MalformedBody
    /\ Len(call.contacts) = MaxBatchLen
    /\ \E n \in 1..Len(call.contacts) : k_email \notin DOMAIN call.contacts[n]
    /\ \A n \in 1..Len(call.result.ret) : call.result.ret[n][k_zi_enriched] = FALSE

(***************************************************************************)
(* Reconciliation: contacts that share a response entry                    *)
(***************************************************************************)
\* what the response gives a contact that is alone in the batch (reconcile
\* on the one contact, with the indexes of the response)
AloneResult(contact, results_by_name, results_by_email) ==
    reconcile_loop(1, results_by_name, results_by_email,
                   [enriched_contacts |-> <<>>, contacts |-> <<contact>>,
                    results |-> Response, matches |-> <<>>]).enriched_contacts[1]

\* C27: the result of each contact that follows another in a batch is the
\* one the response gives that contact alone (as the first contact of a
\* batch has it); two contacts matched to one entry both have every
\* field of the entry under its local name with the entry's value and, when
\* the entry has company keys, the same company sub-mapping.
C27_SharedEntrySameResult ==
    Reconciled =>
        /\ \E results_by_name \in {build_results_by_name(Response, 1, EmptyDict)} :
           \E results_by_email \in {build_results_by_email(Response, 1, EmptyDict)} :
           \A contact \in {call.contacts[n] : n \in 2..Len(call.contacts)} :
           \E alone \in {AloneResult(contact, results_by_name, results_by_email)} :
           \A n \in 2..Len(call.contacts) :
               call.contacts[n] = contact => call.result.ret[n] = alone
        /\ \A n, m \in 1..Len(call.contacts) :
               (n < m /\ call.result.matches[n] # 0
                      /\ call.result.matches[m] = call.result.matches[n]) =>
                   LET entry == Response[call.result.matches[n]]
                       first == call.result.ret[n]
                       second == call.result.ret[m]
                   IN /\ \A key \in DOMAIN entry \ CompanyKeySet :
                             /\ SnakeOf[key] \in DOMAIN first \cap DOMAIN second
                             /\ first[SnakeOf[key]] = entry[key]
                             /\ second[SnakeOf[key]] = entry[key]
                      /\ (DOMAIN entry \cap CompanyKeySet # {}) =>
                             /\ k_company \in DOMAIN first \cap DOMAIN second
                             /\ first[k_company] = second[k_company]

\* two different contacts, the first by its name and the second by its
\* email, are matched to one entry that has company keys: the second has
\* the company sub-mapping although the entry had lost the keys
C27_Witness ==
    /\ Reconciled
    /\ Len(call.contacts) = MaxBatchLen
    /\ call.contacts[1] # call.contacts[MaxBatchLen]
    /\ call.result.matches[1] # 0
    /\ call.result.matches[MaxBatchLen] = call.result.matches[1]
    /\ DOMAIN Response[call.result.matches[1]] \cap CompanyKeySet # {}
    /\ DOMAIN call.result.results[call.result.matches[1]] \cap CompanyKeySet = {}
    /\ k_company \in DOMAIN call.result.ret[MaxBatchLen]
    /\ call.result.ret[MaxBatchLen][k_company] = call.result.ret[1][k_company]

(***************************************************************************)
(* qualify_contact: the shape of the verdict                               *)
(***************************************************************************)
\* the record has a company size that int() refuses
SizeUnparsable ==
    /\ company_size_str_of(qualify.contact_data) # <<>>
    /\ ~int_parses(size_literal(company_size_str_of(qualify.contact_data)))

\* the names of the criteria in the order of the code
CriterionNames ==
    <<"title", "department", "company_size", "industry", "location", "email">>

\* C28: in every verdict 0 <= score <= max_score <= 6 and reasons has one
\* entry per criterion counted in max_score, in the order of the criteria;
\* a company size that cannot be parsed is counted in max_score, adds
\* nothing to score and has its one reason.
C28_VerdictShape ==
    qualify.made =>
        \E parts \in {Parts} :
        \E result \in {Qualification} :
        /\ 0 <= result.score
        /\ result.score <= result.max_score
        /\ result.max_score <= 6
        /\ Len(result.reasons) = result.max_score
        /\ result.max_score
               = Cardinality({c \in 1..Len(CriterionNames) : parts[c].max_score = 1})
        /\ \A c \in 1..Len(CriterionNames) :
               (parts[c].max_score = 1) <=>
                   (\E n \in 1..Len(result.reasons) :
                        result.reasons[n].criterion = CriterionNames[c])
        /\ \A n, m \in 1..Len(result.reasons) :
               (n # m) => result.reasons[n].criterion
                              # result.reasons[m].criterion
        /\ SizeUnparsable =>
               /\ parts[3].max_score = 1
               /\ parts[3].score = 0
               /\ \E n \in 1..Len(result.reasons) :
                      result.reasons[n] =
                          [criterion |-> "company_size", reason |-> "could not determine"]
               /\ result.score < result.max_score

\* every criterion is counted, the company size among them as one that
\* cannot be parsed
C28_Witness ==
    /\ qualify.made
    /\ SizeUnparsable
    /\ Qualification.max_score = 6
    /\ Qualification.score = 5
    /\ Len(Qualification.reasons) = 6

====
